---------------------------- MODULE Spec2Model ----------------------------
(***************************************************************************)
(* A model of the Chadsembler: the bit-string arithmetic layer, the        *)
(* Memory object, the assembler pipeline of main() and the virtual         *)
(* machine.  Characters are one-character strings, Python strings are      *)
(* sequences of characters and Python's None is the empty sequence.        *)
(***************************************************************************)
EXTENDS Integers, Sequences, FiniteSets, TLC

VARIABLES
    bs_value,         \* binarystring: the integer argument `value`
    bs_bits,          \* binarystring: the width argument `bits`
    bs_string,        \* binarystring: the argument `binary_string`
    bs_n,             \* binarystring: the shift count `n`
    bs_call,          \* binarystring: the function(s) applied so far
    bs_out,           \* binarystring: the bit-string a call returned
    bs_carry,         \* binarystring: the carry bit a shift returned
    bs_int,           \* binarystring: the integer a read_* call returned
    config_table,     \* main: the configuration table shared by all stages
    memory,           \* the Memory object: its fields and its memory pool
    exit_status,      \* the status or message the process exited with
    access,           \* Memory: the last call made on the Memory object
    accesses,         \* Memory: the number of calls made so far
    next_stage,       \* main: the stage that runs next
    started,          \* main: the stages started so far, in order
    recorded_errors,  \* the errors recorded by the stage that ran last
    argv,             \* main: the directives on the command line, argv[2:]
    source_code,      \* main: the directives and the lexemes of the source file
    token_stream,     \* main: the tokens the lexer returned
    global_scope,     \* main: the global Scope
    procedure_table,  \* main: the procedure scopes, by name
    resolved_operands,\* CodeGenerator: the operands resolved and their values
    program_counter,  \* VirtualMachine.run: the local program_counter
    stdout,           \* what the machine operations printed
    cycles            \* VirtualMachine.run: the passes of the loop so far

bsvars == <<bs_value, bs_bits, bs_string, bs_n, bs_call, bs_out, bs_carry, bs_int>>

memvars == <<access, accesses>>

pipevars == <<next_stage, started, recorded_errors, argv, source_code, token_stream, global_scope,
              procedure_table, resolved_operands, program_counter, stdout, cycles>>

vars == <<bs_value, bs_bits, bs_string, bs_n, bs_call, bs_out, bs_carry, bs_int,
          config_table, memory, exit_status, access, accesses,
          next_stage, started, recorded_errors, argv, source_code, token_stream, global_scope,
          procedure_table, resolved_operands, program_counter, stdout, cycles>>

-----------------------------------------------------------------------------
(* Bounds of the bit-string specification *)

MaxValue == 9
MaxBits == 4
MaxLen == 4
MaxShift == 5

(* Bounds of the configurations and of the Memory specification *)

MaxRegisters == 4
MaxMemory == 101
MaxAccesses == 2

(* Bounds of the programs and of their runs *)

MaxStatements == 2
MaxCycles == 21

-----------------------------------------------------------------------------
(* Python helpers *)

None == <<>>

Min(a, b) == IF a < b THEN a ELSE b

Max(a, b) == IF a > b THEN a ELSE b

RECURSIVE Pow2(_)
Pow2(k) == IF k <= 0 THEN 1 ELSE 2 * Pow2(k - 1)

\* s[lo:hi] for 0 <= lo, with Python's clamping of hi
Slice(s, lo, hi) == SubSeq(s, lo + 1, Min(hi, Len(s)))

\* s[i] with Python's wrap of a negative index
At(s, i) == IF i < 0 THEN s[Len(s) + i + 1] ELSE s[i + 1]

\* bit * k
Repeat(bit, k) == [i \in 1..k |-> bit]

BitStrings(k) == [1..k -> {"0", "1"}]

-----------------------------------------------------------------------------
(* binarystring.py *)

RECURSIVE to_binary(_)
to_binary(value) ==
    IF value < 2 THEN <<IF value = 1 THEN "1" ELSE "0">>
    ELSE Append(to_binary(value \div 2), IF value % 2 = 1 THEN "1" ELSE "0")

RECURSIVE BitLength(_)
BitLength(value) == IF value = 0 THEN 0 ELSE 1 + BitLength(value \div 2)

BITS == 32

\* the position of the highest set bit among the low BITS bits; a negative
\* value has bit BITS-1 set, and the integers of the model are below 2^(BITS-1)
number_bits(value) == IF value < 0 THEN BITS ELSE BitLength(value)

pad_binary(binary_string, k, bit) == Repeat(bit, k) \o binary_string

overflow_magnitude(value, bits) == IF value < 0 THEN 0 - value ELSE value

overflow(value, bits) == value % Pow2(bits)

unsigned_int(value, bits) ==
    LET b == Max(bits, 1)
        binary_string == to_binary(overflow(value, b))
    IN  pad_binary(binary_string, b - Len(binary_string), "0")

signed_int_twos_complement(value, bits) ==
    LET b == Max(bits, 2)
        binary_string == to_binary(overflow(value, b))
    IN  pad_binary(binary_string, b - Len(binary_string), "0")

signed_int(value, bits) ==
    LET b == Max(bits, 2)
        sign_bit == IF value < 0 THEN "1" ELSE "0"
        magnitude == IF value < 0 THEN value * (-1) ELSE value
        binary_string == to_binary(overflow(magnitude, b - 1))
    IN  <<sign_bit>> \o pad_binary(binary_string, b - Len(binary_string) - 1, "0")

RECURSIVE int_base2(_)
int_base2(binary_string) ==
    IF Len(binary_string) = 0 THEN 0
    ELSE 2 * int_base2(SubSeq(binary_string, 1, Len(binary_string) - 1))
         + (IF binary_string[Len(binary_string)] = "1" THEN 1 ELSE 0)

read_unsigned_int(binary_string) == int_base2(binary_string)

read_signed_int(binary_string) ==
    LET sign == IF binary_string[1] = "0" THEN 1 ELSE -1
    IN  sign * int_base2(Slice(binary_string, 1, Len(binary_string)))

logical_shift_left(binary_string, n) ==
    LET length == Len(binary_string)
    IN  IF n < 1 THEN None
        ELSE IF n > length THEN <<"0", Repeat("0", length)>>
        ELSE <<At(binary_string, n - 1),
               Slice(binary_string, n, length) \o Repeat("0", n)>>

logical_shift_right_clearing_at_width(binary_string, n) ==
    LET length == Len(binary_string)
    IN  IF n < 1 THEN None
        ELSE IF n >= length THEN <<"0", Repeat("0", length)>>
        ELSE <<At(binary_string, length - n),
               Repeat("0", n) \o Slice(binary_string, 0, length - n)>>

logical_shift_right(binary_string, n) ==
    LET length == Len(binary_string)
    IN  IF n < 1 THEN None
        ELSE IF n > length THEN <<"0", Repeat("0", length)>>
        ELSE <<At(binary_string, length - n),
               Repeat("0", n) \o Slice(binary_string, 0, length - n)>>

arithmetic_shift_left(binary_string, n) == logical_shift_left(binary_string, n)

arithmetic_shift_right_filling_zeros(binary_string, n) ==
    LET length == Len(binary_string)
    IN  IF n < 1 THEN None
        ELSE IF n > length THEN <<binary_string[1], Repeat("0", length)>>
        ELSE <<At(binary_string, length - n),
               Repeat("0", n) \o Slice(binary_string, 0, length - n)>>

arithmetic_shift_right(binary_string, n) ==
    LET length == Len(binary_string)
    IN  IF n < 1 THEN None
        ELSE IF n > length THEN <<binary_string[1], Repeat(binary_string[1], length)>>
        ELSE <<At(binary_string, length - n),
               Repeat(binary_string[1], n) \o Slice(binary_string, 0, length - n)>>

circular_shift_left(binary_string, n) ==
    IF n < 1 THEN None
    ELSE LET length == Len(binary_string)
             m == n % length
         IN  IF m = 0 THEN None
             ELSE Slice(binary_string, m, length) \o Slice(binary_string, 0, m)

circular_shift_right_rotating_left(binary_string, n) ==
    IF n < 1 THEN None
    ELSE LET length == Len(binary_string)
             m == n % length
         IN  IF m = 0 THEN None
             ELSE Slice(binary_string, m, length) \o Slice(binary_string, 0, m)

circular_shift_right(binary_string, n) ==
    IF n < 1 THEN None
    ELSE LET length == Len(binary_string)
             m == n % length
         IN  IF m = 0 THEN None
             ELSE LET i == length - m
                  IN  Slice(binary_string, i, length) \o Slice(binary_string, 0, i)

circular_shift_left_carry(binary_string, carry_bit, n) ==
    LET bits == circular_shift_left(<<carry_bit>> \o binary_string, n)
    IN  IF bits # None THEN <<bits[1], Slice(bits, 1, Len(bits))>> ELSE None

\* the string rotated on its own, the carry handed back as it came
circular_shift_right_carry_around_string(binary_string, carry_bit, n) ==
    LET bits == circular_shift_right(binary_string, n)
    IN  IF bits # None THEN <<carry_bit, bits>> ELSE None

circular_shift_right_carry(binary_string, carry_bit, n) ==
    LET bits == circular_shift_right(binary_string \o <<carry_bit>>, n)
    IN  IF bits # None THEN <<bits[Len(bits)], Slice(bits, 0, Len(bits) - 1)>> ELSE None

Bit(c) == IF c = "1" THEN 1 ELSE 0

BitChar(b) == IF b = 1 THEN "1" ELSE "0"

\* zip() stops at the shorter argument
bitwise_and(left, right) ==
    [i \in 1..Min(Len(left), Len(right)) |-> BitChar(Bit(left[i]) * Bit(right[i]))]

bitwise_or(left, right) ==
    [i \in 1..Min(Len(left), Len(right)) |-> BitChar(Max(Bit(left[i]), Bit(right[i])))]

bitwise_not(binary) == [i \in 1..Len(binary) |-> BitChar(1 - Bit(binary[i]))]

bitwise_xor(left, right) ==
    [i \in 1..Min(Len(left), Len(right)) |-> BitChar((Bit(left[i]) + Bit(right[i])) % 2)]

-----------------------------------------------------------------------------
(* architecture.py, csmdefaults.py: the constants the field widths use *)

NUMBER_INSTRUCTIONS == 27
NUMBER_MODES == 4
NUMBER_SPRS == 4
MEMORY_CONFIG == 100
REGISTERS_CONFIG == 3
CLOCK_CONFIG == 0

\* main(): the configuration table before any directive is applied
DefaultConfigTable ==
    [REGISTERS |-> REGISTERS_CONFIG, MEMORY |-> MEMORY_CONFIG, CLOCK |-> CLOCK_CONFIG]

\* the configuration tables the directives can produce within the bounds
ConfigTables ==
    [REGISTERS : REGISTERS_CONFIG..MaxRegisters,
     MEMORY : MEMORY_CONFIG..MaxMemory,
     CLOCK : {CLOCK_CONFIG}]

(* codegenerator.py, CodeGenerator.__init__ *)

machine_operation_bits == number_bits(NUMBER_INSTRUCTIONS - 1)

addressing_mode_bits == number_bits(NUMBER_MODES - 1)

number_registers(config) == config.REGISTERS + NUMBER_SPRS

number_memory_addresses(config) == config.MEMORY

operand_bits(config) ==
    (IF number_registers(config) > number_memory_addresses(config)
     THEN number_bits(number_registers(config))
     ELSE number_bits(number_memory_addresses(config) - 1)) + 1

total_bits(config) == machine_operation_bits + addressing_mode_bits + 2 * operand_bits(config)

number_gprs(config) == number_registers(config) - NUMBER_SPRS

-----------------------------------------------------------------------------
(* architecture.py: the instruction set, the registers, the addressing     *)
(* modes.  A mnemonic or a name is the sequence of its characters.         *)

Instruction(mnemonic, opcode, operands) ==
    [mnemonic |-> mnemonic, opcode |-> opcode, operands |-> operands]

INSTRUCTION_SET ==
    <<Instruction(<<"H", "L", "T">>, 0, 0),
      Instruction(<<"A", "D", "D">>, 1, 2),
      Instruction(<<"S", "U", "B">>, 2, 2),
      Instruction(<<"S", "T", "A">>, 3, 2),
      Instruction(<<"N", "O", "P">>, 4, 0),
      Instruction(<<"L", "D", "A">>, 5, 2),
      Instruction(<<"B", "R", "A">>, 6, 2),
      Instruction(<<"B", "R", "Z">>, 7, 2),
      Instruction(<<"B", "R", "P">>, 8, 2),
      Instruction(<<"I", "N", "P">>, 9, 1),
      Instruction(<<"O", "U", "T">>, 10, 1),
      Instruction(<<"O", "U", "T", "C">>, 11, 1),
      Instruction(<<"O", "U", "T", "B">>, 12, 1),
      Instruction(<<"A", "N", "D">>, 13, 2),
      Instruction(<<"O", "R">>, 14, 2),
      Instruction(<<"N", "O", "T">>, 15, 2),
      Instruction(<<"X", "O", "R">>, 16, 2),
      Instruction(<<"L", "S", "L">>, 17, 2),
      Instruction(<<"L", "S", "R">>, 18, 2),
      Instruction(<<"A", "S", "L">>, 19, 2),
      Instruction(<<"A", "S", "R">>, 20, 2),
      Instruction(<<"C", "S", "L">>, 21, 2),
      Instruction(<<"C", "S", "R">>, 22, 2),
      Instruction(<<"C", "S", "L", "C">>, 23, 2),
      Instruction(<<"C", "S", "R", "C">>, 24, 2),
      Instruction(<<"C", "A", "L", "L">>, 25, 1),
      Instruction(<<"R", "E", "T">>, 26, 0)>>

Mnemonics == {INSTRUCTION_SET[i].mnemonic : i \in 1..Len(INSTRUCTION_SET)}

\* the instruction of a mnemonic, None when there is none
get_instruction(instruction) ==
    IF instruction \in Mnemonics
    THEN INSTRUCTION_SET[CHOOSE i \in 1..Len(INSTRUCTION_SET) :
                            INSTRUCTION_SET[i].mnemonic = instruction]
    ELSE None

NON_IMMEDIATE_MODE_INSTRUCTIONS ==
    {get_instruction(<<"S", "T", "A">>), get_instruction(<<"B", "R", "A">>), get_instruction(<<"B", "R", "Z">>), get_instruction(<<"B", "R", "P">>), get_instruction(<<"C", "A", "L", "L">>)}

DAT == <<"D", "A", "T">>

ACCUMULATOR == [register |-> <<"A", "C", "C">>, variants |-> {<<"A", "C", "C">>, <<"A", "C", "C", "U", "M", "U", "L", "A", "T", "O", "R">>}, offset |-> 1]

PROGRAM_COUNTER == [register |-> <<"P", "C">>, variants |-> {<<"P", "C">>, <<"P", "R", "O", "G", "R", "A", "M", "C", "O", "U", "N", "T", "E", "R">>}, offset |-> 2]

RETURN_REGISTER == [register |-> <<"R", "R">>, variants |-> {<<"R", "R">>, <<"R", "E", "T", "U", "R", "N", "R", "E", "G", "I", "S", "T", "E", "R">>}, offset |-> 3]

FLAGS_REGISTER == [register |-> <<"F", "R">>, variants |-> {<<"F", "R">>, <<"F", "L", "A", "G", "S", "R", "E", "G", "I", "S", "T", "E", "R">>}, offset |-> 4]

SPR == <<ACCUMULATOR, PROGRAM_COUNTER, RETURN_REGISTER, FLAGS_REGISTER>>

GPR == [register |-> <<"R", "E", "G">>, variants |-> {<<"R", "E", "G">>, <<"R">>, <<"R", "E", "G", "I", "S", "T", "E", "R">>}, offset |-> 0]

\* the keys of the lexer's table of special purpose registers
SPECIAL_PURPOSE_REGISTERS == UNION {SPR[i].variants : i \in 1..Len(SPR)}

get_spr(register) ==
    IF register \in SPECIAL_PURPOSE_REGISTERS
    THEN SPR[CHOOSE i \in 1..Len(SPR) :
                 /\ register \in SPR[i].variants
                 /\ \A j \in 1..(i - 1) : register \notin SPR[j].variants]
    ELSE None

REGISTER_MODE == [symbol |-> <<"%">>, variants |-> {<<"%">>, <<"R", "E", "G", "I", "S", "T", "E", "R">>}, opcode |-> 0]

DIRECT_MODE == [symbol |-> <<"@">>, variants |-> {<<"@">>, <<"D", "I", "R", "E", "C", "T">>}, opcode |-> 1]

INDIRECT_MODE == [symbol |-> <<">">>, variants |-> {<<">">>, <<"I", "N", "D", "I", "R", "E", "C", "T">>}, opcode |-> 2]

IMMEDIATE_MODE == [symbol |-> <<"#">>, variants |-> {<<"#">>, <<"I", "M", "M", "E", "D", "I", "A", "T", "E">>}, opcode |-> 3]

ADDRESSING_MODES == <<REGISTER_MODE, DIRECT_MODE, INDIRECT_MODE, IMMEDIATE_MODE>>

AddressingModeVariants == UNION {ADDRESSING_MODES[i].variants : i \in 1..Len(ADDRESSING_MODES)}

get_addressing_mode(addressing_mode) ==
    IF addressing_mode \in AddressingModeVariants
    THEN ADDRESSING_MODES[CHOOSE i \in 1..Len(ADDRESSING_MODES) :
                              addressing_mode \in ADDRESSING_MODES[i].variants]
    ELSE None

-----------------------------------------------------------------------------
(* csmdefaults.py, csmtokens.py, csmerrors.py *)

LowerCase == <<"a", "b", "c", "d", "e", "f", "g", "h", "i", "j", "k", "l", "m", "n", "o", "p", "q", "r", "s", "t", "u", "v", "w", "x", "y", "z">>

UpperCase == <<"A", "B", "C", "D", "E", "F", "G", "H", "I", "J", "K", "L", "M", "N", "O", "P", "Q", "R", "S", "T", "U", "V", "W", "X", "Y", "Z">>

Digits == {"0", "1", "2", "3", "4", "5", "6", "7", "8", "9"}

VALUE_SIGNS == {"+", "-"}

VALUE_CHARS == Digits

VALUE_BEGIN_CHARS == VALUE_SIGNS \cup Digits

LABEL_CHARS ==
    {LowerCase[i] : i \in 1..Len(LowerCase)} \cup {UpperCase[i] : i \in 1..Len(UpperCase)}
        \cup {"_"} \cup Digits

LINE_BREAK_CHARS == {"\n", "\r", "\f"}

\* str.upper() of one character
upper(c) ==
    IF \E i \in 1..Len(LowerCase) : LowerCase[i] = c
    THEN UpperCase[CHOOSE i \in 1..Len(LowerCase) : LowerCase[i] = c]
    ELSE c

default_casing(uncased_string) == [i \in 1..Len(uncased_string) |-> upper(uncased_string[i])]

wrap_bounds(lower, upper_bound, value) == lower + ((value - lower) % (upper_bound + 1 - lower))

DigitValue(c) == CHOOSE v \in 0..9 : <<"0", "1", "2", "3", "4", "5", "6", "7", "8", "9">>[v + 1] = c

RECURSIVE DigitsValue(_)
DigitsValue(digits) ==
    IF Len(digits) = 0 THEN 0
    ELSE 10 * DigitsValue(SubSeq(digits, 1, Len(digits) - 1)) + DigitValue(digits[Len(digits)])

\* int(text): an optional sign and at least one digit, a ValueError otherwise
IsInt(text) ==
    LET digits == IF Len(text) > 0 /\ text[1] \in VALUE_SIGNS THEN Tail(text) ELSE text
    IN  Len(digits) > 0 /\ \A i \in 1..Len(digits) : digits[i] \in Digits

int(text) ==
    IF text[1] = "-" THEN 0 - DigitsValue(Tail(text))
    ELSE IF text[1] = "+" THEN DigitsValue(Tail(text))
    ELSE DigitsValue(text)

TypedToken(type, value, position) == [type |-> type, value |-> value, position |-> position]

\* the position of the tokens the stages make up themselves
NoPosition == 0 - 1

Error(stage, message, position) == [stage |-> stage, message |-> message, position |-> position]

Last(seq) == seq[Len(seq)]

Front(seq) == SubSeq(seq, 1, Len(seq) - 1)

\* list.insert(index, item) and list.pop(index), index counted from 0
Insert(seq, index, item) == SubSeq(seq, 1, index) \o <<item>> \o SubSeq(seq, index + 1, Len(seq))

Pop(seq, index) == SubSeq(seq, 1, index) \o SubSeq(seq, index + 2, Len(seq))

-----------------------------------------------------------------------------
(* precompilation.py, csmtokens.py tokenutils: a directive is the list of  *)
(* the tokens tokenise() splits it into.                                    *)

CONFIG_OPTIONS ==
    <<[key |-> "CLOCK", word |-> <<"C", "L", "O", "C", "K">>, minimum |-> CLOCK_CONFIG],
      [key |-> "REGISTERS", word |-> <<"R", "E", "G", "I", "S", "T", "E", "R", "S">>, minimum |-> REGISTERS_CONFIG],
      [key |-> "MEMORY", word |-> <<"M", "E", "M", "O", "R", "Y">>, minimum |-> MEMORY_CONFIG]>>

ConfigOption(word) == CONFIG_OPTIONS[CHOOSE i \in 1..Len(CONFIG_OPTIONS) : CONFIG_OPTIONS[i].word = word]

valid_number_tokens(directive_tokens) == Len(directive_tokens) = 2

valid_config_option(option) == \E i \in 1..Len(CONFIG_OPTIONS) : CONFIG_OPTIONS[i].word = option

contains_no_sign(value) == value[1] \notin VALUE_SIGNS

valid_config_value(value) == \A i \in 1..Len(value) : value[i] \in Digits

\* the errors one directive records and the table it leaves
parse_directive(stage, directive_tokens, config, position) ==
    IF valid_number_tokens(directive_tokens)
    THEN LET option == directive_tokens[1]
             value == directive_tokens[2]
         IN  IF ~valid_config_option(option)
             THEN [config |-> config, errors |-> <<Error(stage, "UNKNOWN_CONFIG_OPTION", position)>>]
             ELSE IF ~contains_no_sign(value)
             THEN [config |-> config, errors |-> <<Error(stage, "SIGN_SPECIFIED", position)>>]
             ELSE IF ~valid_config_value(value)
             THEN [config |-> config, errors |-> <<Error(stage, "INVALID_CONFIG_VALUE", position)>>]
             ELSE IF int(value) < ConfigOption(option).minimum
             THEN [config |-> config, errors |-> <<Error(stage, "MINIMUM_VALUE", position)>>]
             ELSE [config |-> [config EXCEPT ![ConfigOption(option).key] = int(value)],
                   errors |-> <<>>]
    ELSE IF Len(directive_tokens) > 0
    THEN [config |-> config, errors |-> <<Error(stage, "SINGLE_KEY_VALUE_PAIR", position)>>]
    ELSE [config |-> config, errors |-> <<>>]

RECURSIVE parse_directives(_, _, _, _)
parse_directives(stage, directives, config, index) ==
    IF index > Len(directives) THEN [config |-> config, errors |-> <<>>]
    ELSE LET first == parse_directive(stage, directives[index], config, index)
             rest == parse_directives(stage, directives, first.config, index + 1)
         IN  [config |-> rest.config, errors |-> first.errors \o rest.errors]

-----------------------------------------------------------------------------
(* lexer.py: the source is the list of its lexemes, each the sequence of   *)
(* its characters: a line break, a brace, a separator, an addressing mode  *)
(* sigil, or a word.  Directive lines stand at the head of the file.       *)

SEPARATOR == ","

LEFT_SCOPE == "{"

RIGHT_SCOPE == "}"

Sigils == {"%", "@", ">", "#"}

RECURSIVE gpr_lower(_, _)
gpr_lower(token, lower) ==
    IF lower > 0 - Len(token) /\ At(token, lower - 1) \in Digits
    THEN gpr_lower(token, lower - 1)
    ELSE lower

\* the digits of a general purpose register, the empty string otherwise
is_gpr(token) ==
    LET lower == gpr_lower(token, Len(token))
        register == Slice(token, 0, lower)
        digits == Slice(token, lower, Len(token))
    IN  IF register \in GPR.variants THEN digits ELSE <<>>

get_type(token) ==
    IF token \in Mnemonics THEN "INSTRUCTION"
    ELSE IF token \in SPECIAL_PURPOSE_REGISTERS THEN "REGISTER"
    ELSE IF token \in AddressingModeVariants THEN "ADDRESSING_MODE"
    ELSE IF token = DAT THEN "ASSEMBLY_DIRECTIVE"
    ELSE "LABEL"

\* one error for each character after the sign that is not a digit
handle_value(token, position) ==
    LET first == IF token[1] \in VALUE_SIGNS THEN 2 ELSE 1
    IN  [i \in 1..Cardinality({j \in first..Len(token) : token[j] \notin VALUE_CHARS}) |->
            Error("Lexer", "INVALID_VALUE", position)]

handle_label(token, position) ==
    [i \in 1..Cardinality({j \in 1..Len(token) : token[j] \notin LABEL_CHARS}) |->
        Error("Lexer", "INVALID_LABEL", position)]

\* the token of a word and the errors it records
handle_token(word, position) ==
    LET token == default_casing(word)
    IN  IF token[1] \in VALUE_BEGIN_CHARS
        THEN [token |-> TypedToken("VALUE", token, position),
              errors |-> handle_value(token, position)]
        ELSE IF is_gpr(token) # <<>>
        THEN [token |-> TypedToken("REGISTER", is_gpr(token), position), errors |-> <<>>]
        ELSE IF get_type(token) = "ADDRESSING_MODE"
        THEN [token |-> TypedToken("ADDRESSING_MODE", get_addressing_mode(token).symbol, position),
              errors |-> <<>>]
        ELSE IF get_type(token) = "LABEL"
        THEN [token |-> TypedToken("LABEL", token, position),
              errors |-> handle_label(token, position)]
        ELSE [token |-> TypedToken(get_type(token), token, position), errors |-> <<>>]

RECURSIVE tokenise(_, _, _, _)
tokenise(lexemes, index, tokens, errors) ==
    IF index > Len(lexemes)
    THEN [tokens |-> Append(tokens, TypedToken("END", <<"/">>, index)), errors |-> errors]
    ELSE LET current_char == lexemes[index][1]
         IN  IF current_char \in LINE_BREAK_CHARS
             THEN IF Len(tokens) > 0 /\ Last(tokens).type # "END"
                  THEN tokenise(lexemes, index + 1,
                                Append(tokens, TypedToken("END", <<"/">>, index)), errors)
                  ELSE tokenise(lexemes, index + 1, tokens, errors)
             ELSE IF current_char = LEFT_SCOPE
             THEN tokenise(lexemes, index + 1,
                           Append(tokens, TypedToken("LEFT_BRACE", <<LEFT_SCOPE>>, index)), errors)
             ELSE IF current_char = RIGHT_SCOPE
             THEN tokenise(lexemes, index + 1,
                           Append(tokens, TypedToken("RIGHT_BRACE", <<RIGHT_SCOPE>>, index)), errors)
             ELSE IF current_char = SEPARATOR
             THEN tokenise(lexemes, index + 1,
                           Append(tokens, TypedToken("SEPARATOR", <<SEPARATOR>>, index)), errors)
             ELSE IF current_char \in Sigils
             THEN tokenise(lexemes, index + 1,
                           Append(tokens, TypedToken("ADDRESSING_MODE", <<current_char>>, index)), errors)
             ELSE LET handled == handle_token(lexemes[index], index)
                  IN  tokenise(lexemes, index + 1, Append(tokens, handled.token),
                               errors \o handled.errors)

\* a directive line gives one END token, its line break included
DirectiveEnds(directives) == [i \in 1..Len(directives) |-> TypedToken("END", <<"/">>, 0)]

Lexer_run(source) == tokenise(source.lexemes, 1, DirectiveEnds(source.directives), <<>>)

-----------------------------------------------------------------------------
(* parser.py *)

Parser_END == {"END", "INSTRUCTION", "LABEL", "RIGHT_BRACE", "LEFT_BRACE"}

Parser_INSTRUCTION == {"END", "ADDRESSING_MODE", "VALUE", "REGISTER", "LABEL", "RIGHT_BRACE"}

Parser_ADDRESSING_MODE == {"VALUE", "REGISTER", "LABEL"}

\* the table of an operand with the tokens that begin an operand added
Parser_OPERAND_before_operand ==
    {"END", "SEPARATOR", "RIGHT_BRACE", "LEFT_BRACE", "ADDRESSING_MODE", "VALUE", "REGISTER", "LABEL"}

Parser_OPERAND == {"END", "SEPARATOR", "RIGHT_BRACE", "LEFT_BRACE"}

Parser_LABEL == {"END", "SEPARATOR", "INSTRUCTION", "RIGHT_BRACE", "LEFT_BRACE", "ASSEMBLY_DIRECTIVE"}

Parser_SEPARATOR == {"ADDRESSING_MODE", "VALUE", "REGISTER", "LABEL"}

Parser_SCOPE == {"END"}

Parser_ASSEMBLY_DIRECTIVE == {"END", "VALUE"}

possible_tokens(token) ==
    CASE token.type = "END" -> Parser_END
      [] token.type = "INSTRUCTION" -> Parser_INSTRUCTION
      [] token.type = "ADDRESSING_MODE" -> Parser_ADDRESSING_MODE
      [] token.type \in {"VALUE", "REGISTER"} -> Parser_OPERAND
      [] token.type = "LABEL" -> Parser_LABEL
      [] token.type = "SEPARATOR" -> Parser_SEPARATOR
      [] token.type \in {"RIGHT_BRACE", "LEFT_BRACE"} -> Parser_SCOPE
      [] token.type = "ASSEMBLY_DIRECTIVE" -> Parser_ASSEMBLY_DIRECTIVE

ParserError(first_token, second_token) == [stage |-> "Parser", first |-> first_token, second |-> second_token]

\* a parser that lets blocks nest: a second open brace is no error
validate_scope_nesting(token, previous_scope) ==
    IF token.type = "LEFT_BRACE"
    THEN [previous_scope |-> token, errors |-> <<>>]
    ELSE IF previous_scope = None
         THEN [previous_scope |-> previous_scope, errors |-> <<ParserError(token, token)>>]
         ELSE [previous_scope |-> None, errors |-> <<>>]

\* the open brace and the errors after a brace token
validate_scope(token, previous_scope) ==
    IF token.type = "LEFT_BRACE"
    THEN IF previous_scope = None
         THEN [previous_scope |-> token, errors |-> <<>>]
         ELSE [previous_scope |-> previous_scope, errors |-> <<ParserError(token, token)>>]
    ELSE IF previous_scope = None
         THEN [previous_scope |-> previous_scope, errors |-> <<ParserError(token, token)>>]
         ELSE [previous_scope |-> None, errors |-> <<>>]

\* the parser with the previous token kept where an adjacency error is recorded
RECURSIVE parse_keeping_previous(_, _, _, _, _)
parse_keeping_previous(token_list, index, previous, previous_scope, errors) ==
    IF index > Len(token_list)
    THEN IF previous_scope # None
         THEN LET left_brace == TypedToken("LEFT_BRACE", <<>>, NoPosition)
              IN  Append(errors, ParserError(left_brace, left_brace))
         ELSE errors
    ELSE LET token == token_list[index]
             scoped == IF token.type \in {"LEFT_BRACE", "RIGHT_BRACE"}
                       THEN validate_scope(token, previous_scope)
                       ELSE [previous_scope |-> previous_scope, errors |-> <<>>]
             adjacency == IF token.type \notin possible_tokens(previous)
                          THEN <<ParserError(previous, token)>>
                          ELSE <<>>
         IN  parse_keeping_previous(token_list, index + 1,
                                    IF adjacency = <<>> THEN token ELSE previous,
                                    scoped.previous_scope, errors \o scoped.errors \o adjacency)

RECURSIVE parse(_, _, _, _, _)
parse(token_list, index, previous, previous_scope, errors) ==
    IF index > Len(token_list)
    THEN IF previous_scope # None
         THEN LET left_brace == TypedToken("LEFT_BRACE", <<>>, NoPosition)
              IN  Append(errors, ParserError(left_brace, left_brace))
         ELSE errors
    ELSE LET token == token_list[index]
             scoped == IF token.type \in {"LEFT_BRACE", "RIGHT_BRACE"}
                       THEN validate_scope(token, previous_scope)
                       ELSE [previous_scope |-> previous_scope, errors |-> <<>>]
             adjacency == IF token.type \notin possible_tokens(previous)
                          THEN <<ParserError(previous, token)>>
                          ELSE <<>>
         IN  parse(token_list, index + 1, token, scoped.previous_scope,
                   errors \o scoped.errors \o adjacency)

Parser_run(token_list) == parse(token_list, 1, TypedToken("END", <<>>, NoPosition), None, <<>>)

-----------------------------------------------------------------------------
(* csmstructs.py, csmdefaults.py symboltypes: a Python dict is the sequence *)
(* of its items in insertion order.                                         *)

VARIABLE_VALUE == 0

symboltypes_BRANCH == 1

symboltypes_VARIABLE == 2

symboltypes_PROCEDURE == 3

Symbol(value, type) == [value |-> value, type |-> type]

Scope(tokens, symbol_table, number_instructions, number_variables) ==
    [tokens |-> tokens, symbol_table |-> symbol_table,
     number_instructions |-> number_instructions, number_variables |-> number_variables]

Operand(addressing_mode, value) == [addressing_mode |-> addressing_mode, value |-> value]

HasKey(dict, key) == \E i \in 1..Len(dict) : dict[i].key = key

Lookup(dict, key) == dict[CHOOSE i \in 1..Len(dict) : dict[i].key = key].item

\* dict[key] = item
Store(dict, key, item) ==
    IF HasKey(dict, key)
    THEN [i \in 1..Len(dict) |-> IF dict[i].key = key THEN [key |-> key, item |-> item] ELSE dict[i]]
    ELSE Append(dict, [key |-> key, item |-> item])

-----------------------------------------------------------------------------
(* instructionpools.py: indices count from 0 as in the source; crash marks *)
(* an IndexError or ValueError that no handler catches.                     *)

RECURSIVE get_scope(_, _, _)
get_scope(token_list, index, tokens) ==
    IF index >= Len(token_list)
    THEN [crash |-> TRUE, tokens |-> tokens, index |-> index]
    ELSE IF token_list[index + 1].type = "RIGHT_BRACE"
    THEN [crash |-> FALSE, tokens |-> tokens, index |-> index + 1]
    ELSE get_scope(token_list, index + 1, Append(tokens, token_list[index + 1]))

RECURSIVE get_scopes(_, _, _, _)
get_scopes(token_list, index, global_tokens, procedure_scopes) ==
    IF index >= Len(token_list)
    THEN [crash |-> FALSE, tokens |-> global_tokens, procedure_scopes |-> procedure_scopes]
    ELSE LET token == token_list[index + 1]
             failed == [crash |-> TRUE, tokens |-> global_tokens, procedure_scopes |-> procedure_scopes]
         IN  IF token.type = "LEFT_BRACE"
             THEN IF global_tokens = <<>> THEN failed
                  ELSE IF Last(global_tokens).type = "END" /\ Len(global_tokens) = 1 THEN failed
                  ELSE LET twice == Last(global_tokens).type = "END"
                           procedure_token == IF twice THEN Last(Front(global_tokens))
                                              ELSE Last(global_tokens)
                           remaining == IF twice THEN Front(Front(global_tokens))
                                        ELSE Front(global_tokens)
                           scope == get_scope(token_list, index + 2, <<>>)
                       IN  IF scope.crash THEN failed
                           ELSE get_scopes(token_list, scope.index + 1, remaining,
                                           Store(procedure_scopes, procedure_token.value,
                                                 Scope(scope.tokens, <<>>, 0, 0)))
             ELSE get_scopes(token_list, index + 1, Append(global_tokens, token), procedure_scopes)

RECURSIVE update_global_scope(_, _, _)
update_global_scope(symbol_table, procedure_scopes, index) ==
    IF index > Len(procedure_scopes) THEN symbol_table
    ELSE update_global_scope(Store(symbol_table, procedure_scopes[index].key, Symbol(0 - 1, symboltypes_PROCEDURE)),
                             procedure_scopes, index + 1)

handle_symbol(symbol, current_token, next_token) ==
    IF next_token.type = "INSTRUCTION"
    THEN CASE symbol.type = symboltypes_PROCEDURE ->
                  <<Error("InstructionPools", "PROC_TO_BRANCH_REDECL", current_token.position)>>
           [] symbol.type = symboltypes_BRANCH ->
                  <<Error("InstructionPools", "DUPLICATE_BRANCH", current_token.position)>>
           [] symbol.type = symboltypes_VARIABLE ->
                  <<Error("InstructionPools", "VAR_TO_BRANCH_REDECL", current_token.position)>>
    ELSE IF next_token.type = "ASSEMBLY_DIRECTIVE"
    THEN CASE symbol.type = symboltypes_PROCEDURE ->
                  <<Error("InstructionPools", "PROC_TO_VAR_REDECL", current_token.position)>>
           [] symbol.type = symboltypes_BRANCH ->
                  <<Error("InstructionPools", "BRANCH_TO_VAR_REDECL", current_token.position)>>
           [] symbol.type = symboltypes_VARIABLE ->
                  <<Error("InstructionPools", "DUPLICATE_VAR", current_token.position)>>
    ELSE <<>>

RECURSIVE remove_variable(_, _)
remove_variable(tokens, index) ==
    IF tokens = <<>> THEN [crash |-> FALSE, tokens |-> tokens]
    ELSE IF index >= Len(tokens) THEN [crash |-> TRUE, tokens |-> tokens]
    ELSE IF tokens[index + 1].type = "END" THEN [crash |-> FALSE, tokens |-> tokens]
    ELSE remove_variable(Pop(tokens, index), index)

\* the scope and the errors after a label declaration at index
InstructionPools_handle_label(scope, index, statements) ==
    LET failed == [crash |-> TRUE, scope |-> scope, errors |-> <<>>]
    IN  IF index + 2 >= Len(scope.tokens) THEN failed
        ELSE LET first_token == scope.tokens[index + 1]
                 second_token == scope.tokens[index + 2]
                 third_token == scope.tokens[index + 3]
             IN  IF HasKey(scope.symbol_table, first_token.value)
                 THEN [crash |-> FALSE, scope |-> scope,
                       errors |-> handle_symbol(Lookup(scope.symbol_table, first_token.value),
                                                first_token, second_token)]
                 ELSE IF second_token.type = "ASSEMBLY_DIRECTIVE"
                 THEN IF third_token.type = "VALUE" /\ ~IsInt(third_token.value) THEN failed
                      ELSE LET value == IF third_token.type = "VALUE" THEN int(third_token.value)
                                        ELSE VARIABLE_VALUE
                               removed == remove_variable(scope.tokens, index)
                           IN  IF removed.crash THEN failed
                               ELSE [crash |-> FALSE,
                                     scope |-> Scope(removed.tokens,
                                                     Store(scope.symbol_table, first_token.value,
                                                           Symbol(value, symboltypes_VARIABLE)),
                                                     scope.number_instructions,
                                                     scope.number_variables + 1),
                                     errors |-> <<>>]
                 ELSE [crash |-> FALSE,
                       scope |-> [scope EXCEPT !.symbol_table =
                                      Store(scope.symbol_table, first_token.value,
                                            IF second_token.type = "INSTRUCTION"
                                            THEN Symbol(statements, symboltypes_BRANCH)
                                            ELSE Symbol(0 - 1, symboltypes_VARIABLE))],
                       errors |-> <<>>]

RECURSIVE update_symbol_table(_, _, _, _)
update_symbol_table(scope, index, statements, errors) ==
    IF index >= Len(scope.tokens)
    THEN [crash |-> FALSE, scope |-> [scope EXCEPT !.number_instructions = statements],
          errors |-> errors]
    ELSE LET token == scope.tokens[index + 1]
             failed == [crash |-> TRUE, scope |-> scope, errors |-> errors]
         IN  IF token.type = "LABEL"
             THEN IF index + 1 >= Len(scope.tokens) THEN failed
                  ELSE IF scope.tokens[index + 2].type \in {"INSTRUCTION", "ASSEMBLY_DIRECTIVE"}
                  THEN LET handled == InstructionPools_handle_label(scope, index, statements)
                       IN  IF handled.crash THEN failed
                           ELSE update_symbol_table(handled.scope, index + 1, statements,
                                                    errors \o handled.errors)
                  ELSE update_symbol_table(scope, index + 1, statements, errors)
             ELSE IF token.type = "INSTRUCTION"
             THEN update_symbol_table(scope, index + 1, statements + 1, errors)
             ELSE update_symbol_table(scope, index + 1, statements, errors)

RECURSIVE update_procedure_tables(_, _, _)
update_procedure_tables(procedure_scopes, index, errors) ==
    IF index > Len(procedure_scopes)
    THEN [crash |-> FALSE, procedure_scopes |-> procedure_scopes, errors |-> errors]
    ELSE LET updated == update_symbol_table(procedure_scopes[index].item, 0, 0, <<>>)
         IN  IF updated.crash
             THEN [crash |-> TRUE, procedure_scopes |-> procedure_scopes, errors |-> errors]
             ELSE update_procedure_tables(
                      [procedure_scopes EXCEPT ![index].item = updated.scope],
                      index + 1, errors \o updated.errors)

InstructionPools_run(token_list) ==
    LET scopes == get_scopes(token_list, 0, <<>>, <<>>)
        failed == [crash |-> TRUE, global_scope |-> None, procedure_scopes |-> None, errors |-> <<>>]
    IN  IF scopes.crash THEN failed
        ELSE LET global == update_symbol_table(
                               Scope(scopes.tokens,
                                     update_global_scope(<<>>, scopes.procedure_scopes, 1), 0, 0),
                               0, 0, <<>>)
             IN  IF global.crash THEN failed
                 ELSE LET procedures == update_procedure_tables(scopes.procedure_scopes, 1, <<>>)
                      IN  IF procedures.crash THEN failed
                          ELSE [crash |-> FALSE, global_scope |-> global.scope,
                                procedure_scopes |-> procedures.procedure_scopes,
                                errors |-> global.errors \o procedures.errors]

-----------------------------------------------------------------------------
(* semanticanalayser.py *)

OperandTypes == {"VALUE", "REGISTER", "LABEL"}

RECURSIVE count_operands(_, _, _)
count_operands(tokens, index, operands) ==
    IF index >= Len(tokens) THEN [crash |-> TRUE, operands |-> operands]
    ELSE IF tokens[index + 1].type = "END" THEN [crash |-> FALSE, operands |-> operands]
    ELSE count_operands(tokens, index + 1,
                        IF tokens[index + 1].type \in OperandTypes THEN operands + 1 ELSE operands)

analyse_addressing_mode(operand) ==
    IF operand.addressing_mode.value = REGISTER_MODE.symbol /\ operand.value.type # "REGISTER"
    THEN <<Error("SemanticAnalyser", "REGISTER_MODE_MISMATCH", operand.value.position)>>
    ELSE IF operand.addressing_mode.value # REGISTER_MODE.symbol /\ operand.value.type = "REGISTER"
    THEN <<Error("SemanticAnalyser", "REGISTER_OPERAND_MISMATCH", operand.value.position)>>
    ELSE <<>>

\* the analysis without the look-up of a label in the symbol tables
analyse_operand_value_any_label(operand, scope, global_symbol_table) ==
    IF operand.value.type = "REGISTER" /\ operand.value.value = <<"0">>
    THEN <<Error("SemanticAnalyser", "GPR_ZERO", operand.value.position)>>
    ELSE <<>>

analyse_operand_value(operand, scope, global_symbol_table) ==
    IF /\ operand.value.type = "LABEL"
       /\ ~HasKey(global_symbol_table, operand.value.value)
       /\ ~HasKey(scope.symbol_table, operand.value.value)
    THEN <<Error("SemanticAnalyser", "UNDECLARED_LABEL", operand.value.position)>>
    ELSE IF operand.value.type = "REGISTER" /\ operand.value.value = <<"0">>
    THEN <<Error("SemanticAnalyser", "GPR_ZERO", operand.value.position)>>
    ELSE <<>>

analyse_operand(operand, scope, global_symbol_table) ==
    analyse_addressing_mode(operand) \o analyse_operand_value(operand, scope, global_symbol_table)

\* the separator get_operand inserts before a default operand that follows an
\* operand
SeparateDefaultOperand(inserted, index) ==
    IF At(inserted, index - 1).type \in OperandTypes
    THEN [tokens |-> Insert(inserted, index, TypedToken("SEPARATOR", <<SEPARATOR>>, NoPosition)),
          index |-> index + 1]
    ELSE [tokens |-> inserted, index |-> index]

\* the tokens after the default operand is inserted at an END
InsertDefaultOperand(tokens, index) ==
    SeparateDefaultOperand(
        Insert(Insert(tokens, index, TypedToken("REGISTER", ACCUMULATOR.register, NoPosition)),
               index, TypedToken("ADDRESSING_MODE", REGISTER_MODE.symbol, NoPosition)),
        index)

\* the match statement of get_operand: what is inserted for the token at index
InsertAddressingMode(tokens, index) ==
    IF tokens[index + 1].type = "END" THEN InsertDefaultOperand(tokens, index)
    ELSE IF tokens[index + 1].type = "REGISTER"
    THEN [tokens |-> Insert(tokens, index,
                            TypedToken("ADDRESSING_MODE", REGISTER_MODE.symbol, NoPosition)),
          index |-> index]
    ELSE IF tokens[index + 1].type \in {"LABEL", "VALUE"}
    THEN [tokens |-> Insert(tokens, index,
                            TypedToken("ADDRESSING_MODE", DIRECT_MODE.symbol, NoPosition)),
          index |-> index]
    ELSE [tokens |-> tokens, index |-> index]

\* the return of get_operand: the Operand at the index, after the insertions
OperandAfter(placed) ==
    IF placed.index + 1 >= Len(placed.tokens)
    THEN [crash |-> TRUE, tokens |-> placed.tokens, operand |-> None]
    ELSE [crash |-> FALSE, tokens |-> placed.tokens,
          operand |-> Operand(placed.tokens[placed.index + 1], placed.tokens[placed.index + 2])]

RECURSIVE get_operand(_, _)
get_operand(index, tokens) ==
    IF index >= Len(tokens) THEN [crash |-> TRUE, tokens |-> tokens, operand |-> None]
    ELSE IF tokens[index + 1].type = "SEPARATOR" THEN get_operand(index + 1, tokens)
    ELSE OperandAfter(InsertAddressingMode(tokens, index))

\* the checks of analyse_instruction on the source operand it got
SourceChecks(got, instruction, token, scope, global_symbol_table) ==
    IF got.crash THEN [crash |-> TRUE, tokens |-> got.tokens, errors |-> <<>>]
    ELSE [crash |-> FALSE, tokens |-> got.tokens,
          errors |->
              analyse_operand(got.operand, scope, global_symbol_table)
              \o (IF instruction.mnemonic = <<"I", "N", "P">>
                     /\ got.operand.addressing_mode.value # REGISTER_MODE.symbol
                  THEN <<Error("SemanticAnalyser", "NON_REGISTER_INP_OPERAND", token.position)>>
                  ELSE <<>>)
              \o (IF instruction \in NON_IMMEDIATE_MODE_INSTRUCTIONS
                     /\ got.operand.addressing_mode.value = IMMEDIATE_MODE.symbol
                  THEN <<Error("SemanticAnalyser", "IMMEDIATE_MODE", token.position)>>
                  ELSE <<>>)]

\* the source operand part of analyse_instruction
AnalyseSource(instruction, token, index, scope, global_symbol_table) ==
    SourceChecks(get_operand(index + 1, scope.tokens), instruction, token, scope,
                 global_symbol_table)

\* the checks of analyse_instruction on the destination operand it got
DestinationChecks(got, token, scope, global_symbol_table) ==
    IF got.crash THEN [crash |-> TRUE, tokens |-> got.tokens, errors |-> <<>>]
    ELSE [crash |-> FALSE, tokens |-> got.tokens,
          errors |->
              analyse_operand(got.operand, scope, global_symbol_table)
              \o (IF got.operand.addressing_mode.value # REGISTER_MODE.symbol
                  THEN <<Error("SemanticAnalyser", "NON_REGISTER_DESTINATION_OPERAND",
                               token.position)>>
                  ELSE <<>>)]

\* the destination operand part of analyse_instruction
AnalyseDestination(token, index, scope, global_symbol_table) ==
    DestinationChecks(get_operand(index + 3, scope.tokens), token, scope, global_symbol_table)

\* the errors of an instruction, in the order analyse_instruction records them
InstructionErrors(tokens, missing, source, destination) ==
    IF source.crash \/ destination.crash
    THEN [crash |-> TRUE, tokens |-> tokens, errors |-> <<>>]
    ELSE [crash |-> FALSE, tokens |-> destination.tokens,
          errors |-> missing \o source.errors \o destination.errors]

\* analyse_instruction without its test for a missing source operand
AnalyseOperands_accepting_no_source(source, instruction, token, index, scope, global_symbol_table) ==
    InstructionErrors(
        scope.tokens,
        <<>>,
        source,
        IF instruction.operands > 1
        THEN AnalyseDestination(token, index, [scope EXCEPT !.tokens = source.tokens],
                                global_symbol_table)
        ELSE [crash |-> FALSE, tokens |-> source.tokens, errors |-> <<>>])

\* the else branch of analyse_instruction, the source operand analysed
AnalyseOperands(source, instruction, token, index, scope, global_symbol_table) ==
    InstructionErrors(
        scope.tokens,
        IF instruction.operands > 1 /\ scope.tokens[index + 2].type = "END"
        THEN <<Error("SemanticAnalyser", "NO_SOURCE_OPERAND", token.position)>>
        ELSE <<>>,
        source,
        IF instruction.operands > 1
        THEN AnalyseDestination(token, index, [scope EXCEPT !.tokens = source.tokens],
                                global_symbol_table)
        ELSE [crash |-> FALSE, tokens |-> source.tokens, errors |-> <<>>])

\* analyse_instruction after get_instruction and count_operands
AnalyseCounted(counted, instruction, token, index, scope, global_symbol_table) ==
    IF counted.crash THEN [crash |-> TRUE, tokens |-> scope.tokens, errors |-> <<>>]
    ELSE IF counted.operands > instruction.operands
    THEN [crash |-> FALSE, tokens |-> scope.tokens,
          errors |-> <<Error("SemanticAnalyser", "EXCESS_OPERANDS", token.position)>>]
    ELSE AnalyseOperands(
             IF instruction.operands > 0
             THEN AnalyseSource(instruction, token, index, scope, global_symbol_table)
             ELSE [crash |-> FALSE, tokens |-> scope.tokens, errors |-> <<>>],
             instruction, token, index, scope, global_symbol_table)

analyse_instruction(index, scope, global_symbol_table) ==
    AnalyseCounted(count_operands(scope.tokens, index, 0),
                   get_instruction(scope.tokens[index + 1].value), scope.tokens[index + 1],
                   index, scope, global_symbol_table)

RECURSIVE semantic_analyse(_, _, _, _)
\* the loop of semantic_analyse after an instruction is analysed
AnalyseFollowing(analysed, scope, index, global_symbol_table, errors) ==
    IF analysed.crash THEN [crash |-> TRUE, scope |-> scope, errors |-> errors]
    ELSE semantic_analyse([scope EXCEPT !.tokens = analysed.tokens], index + 1,
                          global_symbol_table, errors \o analysed.errors)

semantic_analyse(scope, index, global_symbol_table, errors) ==
    IF index >= Len(scope.tokens) THEN [crash |-> FALSE, scope |-> scope, errors |-> errors]
    ELSE IF scope.tokens[index + 1].type = "INSTRUCTION"
    THEN AnalyseFollowing(analyse_instruction(index, scope, global_symbol_table), scope, index,
                          global_symbol_table, errors)
    ELSE semantic_analyse(scope, index + 1, global_symbol_table, errors)

RECURSIVE analyse_procedures(_, _, _, _)
\* the loop of run over the procedure scopes after one of them is analysed
AnalyseFollowingProcedures(analysed, procedure_scopes, index, global_symbol_table, errors) ==
    IF analysed.crash
    THEN [crash |-> TRUE, procedure_scopes |-> procedure_scopes, errors |-> errors]
    ELSE analyse_procedures([procedure_scopes EXCEPT ![index].item = analysed.scope],
                            index + 1, global_symbol_table, errors \o analysed.errors)

analyse_procedures(procedure_scopes, index, global_symbol_table, errors) ==
    IF index > Len(procedure_scopes)
    THEN [crash |-> FALSE, procedure_scopes |-> procedure_scopes, errors |-> errors]
    ELSE AnalyseFollowingProcedures(
             semantic_analyse(procedure_scopes[index].item, 0, global_symbol_table, <<>>),
             procedure_scopes, index, global_symbol_table, errors)

\* what run leaves: the scopes with their default operands and the errors
AnalysedScopes(analysed, procedures, global, procedure_scopes) ==
    IF analysed.crash \/ procedures.crash
    THEN [crash |-> TRUE, global_scope |-> global, procedure_scopes |-> procedure_scopes,
          errors |-> <<>>]
    ELSE [crash |-> FALSE, global_scope |-> analysed.scope,
          procedure_scopes |-> procedures.procedure_scopes,
          errors |-> analysed.errors \o procedures.errors]

SemanticAnalyser_run(global, procedure_scopes) ==
    AnalysedScopes(semantic_analyse(global, 0, global.symbol_table, <<>>),
                   analyse_procedures(procedure_scopes, 1, global.symbol_table, <<>>),
                   global, procedure_scopes)

-----------------------------------------------------------------------------
(* csmstructs.py, class Memory *)

NewMemory(nregisters, architecture, opbits) ==
    LET naddresses == Pow2(opbits - 1)
    IN  [number_addresses |-> naddresses,
         number_registers |-> nregisters,
         architecture |-> architecture,
         memory_pool |-> [i \in 0..(nregisters + naddresses - 1) |-> Repeat("0", architecture)],
         memory_pool_length |-> nregisters + naddresses]

\* the memory of CodeGenerator.run for a configuration
MemoryOf(config) == NewMemory(number_registers(config), total_bits(config), operand_bits(config))

SegmentationFault == 0 - 1

calculate_address_skipping_first(mem, address) ==
    LET pointer == mem.number_registers + address
    IN  IF pointer > 0 /\ pointer < mem.memory_pool_length
        THEN pointer
        ELSE SegmentationFault

\* the index in the pool, or the exit with "Segmentation Fault"
calculate_address(mem, address) ==
    LET pointer == mem.number_registers + address
    IN  IF pointer > (0 - 1) /\ pointer < mem.memory_pool_length
        THEN pointer
        ELSE SegmentationFault

Faults(mem, address) == calculate_address(mem, address) = SegmentationFault

Memory_get(mem, address) == mem.memory_pool[calculate_address(mem, address)]

Memory_insert_binary(mem, address, value) ==
    [mem EXCEPT !.memory_pool[calculate_address(mem, address)] = value]

Memory_insert_value(mem, address, value) ==
    [mem EXCEPT !.memory_pool[calculate_address(mem, address)] =
                    signed_int(value, mem.architecture)]

-----------------------------------------------------------------------------
(* codegenerator.py: outcome is "ok", "Segmentation Fault" (the exit of    *)
(* Memory) or "traceback" (an exception no handler catches).                *)

RECURSIVE update_global_symbols(_, _, _, _)
update_global_symbols(symbol_table, procedure_scopes, index, offset) ==
    IF index > Len(procedure_scopes) THEN symbol_table
    ELSE update_global_symbols(
             Store(symbol_table, procedure_scopes[index].key,
                   [Lookup(symbol_table, procedure_scopes[index].key) EXCEPT !.value = offset]),
             procedure_scopes, index + 1,
             offset + procedure_scopes[index].item.number_instructions
                    + procedure_scopes[index].item.number_variables)

\* the special registers numbered from 0 instead of after the last general one
CodeGenerator_resolve_operand_from_zero(operand, scope, global_symbol_table, config) ==
    IF operand.value.type = "LABEL"
    THEN IF HasKey(scope.symbol_table, operand.value.value)
         THEN [crash |-> FALSE, value |-> Lookup(scope.symbol_table, operand.value.value).value]
         ELSE IF HasKey(global_symbol_table, operand.value.value)
         THEN [crash |-> FALSE, value |-> Lookup(global_symbol_table, operand.value.value).value]
         ELSE [crash |-> TRUE, value |-> 0]
    ELSE IF operand.value.type = "VALUE"
    THEN IF IsInt(operand.value.value)
         THEN [crash |-> FALSE, value |-> int(operand.value.value)]
         ELSE [crash |-> TRUE, value |-> 0]
    ELSE IF operand.value.type = "REGISTER"
    THEN IF get_spr(operand.value.value) = None
         THEN IF IsInt(operand.value.value)
              THEN [crash |-> FALSE,
                    value |-> wrap_bounds(1, number_gprs(config), int(operand.value.value)) * (-1)]
              ELSE [crash |-> TRUE, value |-> 0]
         ELSE [crash |-> FALSE,
               value |-> get_spr(operand.value.value).offset * (-1)]
    ELSE [crash |-> TRUE, value |-> 0]

\* the value an operand points to
CodeGenerator_resolve_operand(operand, scope, global_symbol_table, config) ==
    IF operand.value.type = "LABEL"
    THEN IF HasKey(scope.symbol_table, operand.value.value)
         THEN [crash |-> FALSE, value |-> Lookup(scope.symbol_table, operand.value.value).value]
         ELSE IF HasKey(global_symbol_table, operand.value.value)
         THEN [crash |-> FALSE, value |-> Lookup(global_symbol_table, operand.value.value).value]
         ELSE [crash |-> TRUE, value |-> 0]
    ELSE IF operand.value.type = "VALUE"
    THEN IF IsInt(operand.value.value)
         THEN [crash |-> FALSE, value |-> int(operand.value.value)]
         ELSE [crash |-> TRUE, value |-> 0]
    ELSE IF operand.value.type = "REGISTER"
    THEN IF get_spr(operand.value.value) = None
         THEN IF IsInt(operand.value.value)
              THEN [crash |-> FALSE,
                    value |-> wrap_bounds(1, number_gprs(config), int(operand.value.value)) * (-1)]
              ELSE [crash |-> TRUE, value |-> 0]
         ELSE [crash |-> FALSE,
               value |-> (number_gprs(config) + get_spr(operand.value.value).offset) * (-1)]
    ELSE [crash |-> TRUE, value |-> 0]

\* the operation assembled from the resolved operands
MachineOperation(instruction, mode, source, destination, source_operand, destination_operand, config) ==
    IF mode = None \/ source.crash \/ destination.crash
    THEN [crash |-> TRUE, bits |-> <<>>,
          resolved |-> <<[operand |-> source_operand, value |-> source.value,
                          crash |-> source.crash],
                         [operand |-> destination_operand, value |-> destination.value,
                          crash |-> destination.crash]>>]
    ELSE [crash |-> FALSE,
          resolved |-> <<[operand |-> source_operand, value |-> source.value,
                          crash |-> source.crash],
                         [operand |-> destination_operand, value |-> destination.value,
                          crash |-> destination.crash]>>,
          bits |-> unsigned_int(instruction.opcode, machine_operation_bits)
                   \o unsigned_int(mode.opcode, addressing_mode_bits)
                   \o signed_int(source.value, operand_bits(config))
                   \o signed_int(destination.value, operand_bits(config))]

generate_machine_operation(instruction, source_operand, destination_operand, scope, global_symbol_table, config) ==
    MachineOperation(
        instruction, get_addressing_mode(source_operand.addressing_mode.value),
        CodeGenerator_resolve_operand(source_operand, scope, global_symbol_table, config),
        CodeGenerator_resolve_operand(destination_operand, scope, global_symbol_table, config),
        source_operand, destination_operand, config)

RECURSIVE update_local_symbols(_, _, _, _, _, _)
update_local_symbols(symbol_table, position, mem, offset, index, config) ==
    IF position > Len(symbol_table)
    THEN [outcome |-> "ok", symbol_table |-> symbol_table, memory |-> mem, offset |-> offset]
    ELSE LET symbol == symbol_table[position].item
         IN  IF symbol.type = symboltypes_BRANCH
             THEN update_local_symbols(
                      [symbol_table EXCEPT ![position].item.value = symbol.value + index],
                      position + 1, mem, offset, index, config)
             ELSE IF symbol.type = symboltypes_VARIABLE
             THEN IF Faults(mem, offset)
                  THEN [outcome |-> "Segmentation Fault", symbol_table |-> symbol_table,
                        memory |-> mem, offset |-> offset]
                  ELSE update_local_symbols(
                           [symbol_table EXCEPT ![position].item.value = offset],
                           position + 1,
                           Memory_insert_binary(mem, offset,
                                                signed_int(symbol.value, total_bits(config))),
                           offset + 1, index, config)
             ELSE update_local_symbols(symbol_table, position + 1, mem, offset, index, config)

default_operand ==
    Operand(TypedToken("ADDRESSING_MODE", REGISTER_MODE.symbol, NoPosition),
            TypedToken("VALUE", <<"0">>, NoPosition))

RECURSIVE generate_instructions(_, _, _, _, _, _, _)
\* the loop of generate_code after the operation of an instruction is generated
InsertOperation(operation, scope, position, mem, index, global_symbol_table, config, resolved) ==
    IF operation.crash
    THEN [outcome |-> "traceback", memory |-> mem, index |-> index,
          resolved |-> resolved \o operation.resolved]
    ELSE IF Faults(mem, index)
    THEN [outcome |-> "Segmentation Fault", memory |-> mem, index |-> index,
          resolved |-> resolved \o operation.resolved]
    ELSE generate_instructions(scope, position + 1,
                               Memory_insert_binary(mem, index, operation.bits),
                               index + 1, global_symbol_table, config,
                               resolved \o operation.resolved)

\* the instruction at a position: its operands are read and it is generated
GenerateInstruction(instruction, scope, position, mem, index, global_symbol_table, config, resolved) ==
    IF \/ instruction.operands > 0 /\ position + 2 >= Len(scope.tokens)
       \/ instruction.operands > 1 /\ position + 5 >= Len(scope.tokens)
    THEN [outcome |-> "traceback", memory |-> mem, index |-> index, resolved |-> resolved]
    ELSE InsertOperation(
             generate_machine_operation(
                 instruction,
                 IF instruction.operands > 0
                 THEN Operand(scope.tokens[position + 2], scope.tokens[position + 3])
                 ELSE default_operand,
                 IF instruction.operands > 1
                 THEN Operand(scope.tokens[position + 5], scope.tokens[position + 6])
                 ELSE default_operand,
                 scope, global_symbol_table, config),
             scope, position, mem, index, global_symbol_table, config, resolved)

generate_instructions(scope, position, mem, index, global_symbol_table, config, resolved) ==
    IF position >= Len(scope.tokens)
    THEN [outcome |-> "ok", memory |-> mem, index |-> index, resolved |-> resolved]
    ELSE IF scope.tokens[position + 1].type # "INSTRUCTION"
    THEN generate_instructions(scope, position + 1, mem, index, global_symbol_table, config,
                               resolved)
    ELSE GenerateInstruction(get_instruction(scope.tokens[position + 1].value), scope, position,
                             mem, index, global_symbol_table, config, resolved)

\* the generator after the instructions of a scope are generated
GeneratedScope(generated, local, updated, global_symbol_table) ==
    [outcome |-> generated.outcome, memory |-> generated.memory,
     resolved |-> generated.resolved, scope |-> updated,
     offset |-> local.offset,
     index |-> IF generated.outcome = "ok" THEN local.offset ELSE generated.index,
     global_symbol_table |-> global_symbol_table]

\* generate_code after update_local_symbols
GenerateScope(local, updated, global_symbol_table, state, config) ==
    IF local.outcome # "ok"
    THEN [state EXCEPT !.outcome = local.outcome, !.memory = local.memory, !.scope = updated]
    ELSE GeneratedScope(generate_instructions(updated, 0, local.memory, state.index,
                                              global_symbol_table, config, state.resolved),
                        local, updated, global_symbol_table)

\* generate_code with the symbol table of the scope updated
GenerateUpdated(local, scope, is_global, state, config) ==
    GenerateScope(local, [scope EXCEPT !.symbol_table = local.symbol_table],
                  IF is_global THEN local.symbol_table ELSE state.global_symbol_table,
                  state, config)

\* the generator after one scope; the global scope is its own global table
generate_code(scope, is_global, state, config) ==
    GenerateUpdated(update_local_symbols(scope.symbol_table, 1, state.memory,
                                         state.offset + scope.number_instructions,
                                         state.index, config),
                    scope, is_global, state, config)

RECURSIVE generate_procedures(_, _, _, _)
\* the loop of run over the procedure scopes after one of them is generated
GenerateFollowingProcedures(generated, procedure_scopes, position, config) ==
    generate_procedures([procedure_scopes EXCEPT ![position].item = generated.scope],
                        position + 1, generated, config)

generate_procedures(procedure_scopes, position, state, config) ==
    IF position > Len(procedure_scopes) \/ state.outcome # "ok"
    THEN [outcome |-> state.outcome, memory |-> state.memory, resolved |-> state.resolved,
          global_symbol_table |-> state.global_symbol_table,
          procedure_scopes |-> procedure_scopes]
    ELSE GenerateFollowingProcedures(
             generate_code(procedure_scopes[position].item, FALSE, state, config),
             procedure_scopes, position, config)

\* run with the global symbol table updated by update_global_symbols
GenerateProgram(symbols, global, procedure_scopes, config) ==
    generate_procedures(procedure_scopes, 1,
                        generate_code([global EXCEPT !.symbol_table = symbols], TRUE,
                                      [outcome |-> "ok", memory |-> MemoryOf(config),
                                       offset |-> 0, index |-> 0,
                                       global_symbol_table |-> symbols, resolved |-> <<>>,
                                       scope |-> global],
                                      config),
                        config)

\* run with the first procedure placed right after the global instructions
CodeGenerator_run_over_variables(global, procedure_scopes, config) ==
    GenerateProgram(update_global_symbols(global.symbol_table, procedure_scopes, 1,
                                          global.number_instructions),
                    global, procedure_scopes, config)

CodeGenerator_run(global, procedure_scopes, config) ==
    GenerateProgram(update_global_symbols(global.symbol_table, procedure_scopes, 1,
                                          global.number_instructions + global.number_variables),
                    global, procedure_scopes, config)

-----------------------------------------------------------------------------
(* machineoperations.py: an operation is the list of the writes it makes,  *)
(* what it prints and how it ends: "ok", "halt" (exit(0)), "Runtime Error" *)
(* (the exit of INP), "Segmentation Fault" or "traceback".                  *)

MemoryValue(address, bits, value) == [address |-> address, bits |-> bits, value |-> value]

program_counter_address(config) == (PROGRAM_COUNTER.offset + config.REGISTERS) * (-1)

flags_register_address(config) == (FLAGS_REGISTER.offset + config.REGISTERS) * (-1)

return_register_address(config) == (RETURN_REGISTER.offset + config.REGISTERS) * (-1)

Write(address, bits) == [address |-> address, bits |-> bits]

Effect(outcome, writes, printed) == [outcome |-> outcome, writes |-> writes, printed |-> printed]

Printed(operation, value, bits) == <<[operation |-> operation, value |-> value, bits |-> bits]>>

\* chr() takes a code point
MaxCodePoint == 1114111

\* memory.insert_value(address, value) as a write
ValueWrite_one_bit_short(mem, address, value) ==
    Write(address, signed_int(value, mem.architecture - 1))

ValueWrite(mem, address, value) == Write(address, signed_int(value, mem.architecture))

\* LSL, LSR, ASL, ASR, CSLC and CSRC after the shift is computed
\* a shift that leaves the flags register alone
ShiftEffect_without_carry(mem, shift, destination, config) ==
    IF shift = None THEN Effect("ok", <<>>, <<>>)
    ELSE Effect("ok", <<Write(destination.address, shift[2])>>, <<>>)

ShiftEffect(mem, shift, destination, config) ==
    IF shift = None THEN Effect("ok", <<>>, <<>>)
    ELSE Effect("ok",
                <<Write(flags_register_address(config),
                        pad_binary(<<shift[1]>>, mem.architecture - 1, "0")),
                  Write(destination.address, shift[2])>>,
                <<>>)

CircularEffect(shift, destination) ==
    IF shift = None THEN Effect("ok", <<>>, <<>>)
    ELSE Effect("ok", <<Write(destination.address, shift)>>, <<>>)

\* a branch taken when its condition is false
BranchEffect_inverted(mem, taken, source, config) ==
    IF taken
    THEN Effect("ok", <<>>, <<>>)
    ELSE Effect("ok", <<ValueWrite(mem, program_counter_address(config), source.address)>>, <<>>)

\* a branch that is never taken
BranchEffect_never_taken(mem, taken, source, config) == Effect("ok", <<>>, <<>>)

BranchEffect(mem, taken, source, config) ==
    IF taken
    THEN Effect("ok", <<ValueWrite(mem, program_counter_address(config), source.address)>>, <<>>)
    ELSE Effect("ok", <<>>, <<>>)

INP(mem, source, input) ==
    IF IsInt(input)
    THEN Effect("ok", <<ValueWrite(mem, source.address, int(input))>>, <<>>)
    ELSE Effect("Runtime Error", <<>>, <<>>)

OUTC(source) ==
    IF source.value < 0 \/ source.value > MaxCodePoint
    THEN Effect("traceback", <<>>, <<>>)
    ELSE Effect("ok", <<>>, Printed("OUTC", source.value, <<>>))

CarryBit(mem, config) == At(Memory_get(mem, flags_register_address(config)), 0 - 1)

execute(opcode, source, destination, mem, config, input) ==
    CASE opcode = 0 -> Effect("halt", <<>>, <<>>)
      [] opcode = 1 -> Effect("ok", <<ValueWrite(mem, destination.address,
                                                 destination.value + source.value)>>, <<>>)
      [] opcode = 2 -> Effect("ok", <<ValueWrite(mem, destination.address,
                                                 destination.value - source.value)>>, <<>>)
      [] opcode = 3 -> Effect("ok", <<Write(source.address, destination.bits)>>, <<>>)
      [] opcode = 4 -> Effect("ok", <<>>, <<>>)
      [] opcode = 5 -> Effect("ok", <<Write(destination.address, source.bits)>>, <<>>)
      [] opcode = 6 -> BranchEffect(mem, TRUE, source, config)
      [] opcode = 7 -> BranchEffect(mem, destination.value = 0, source, config)
      [] opcode = 8 -> BranchEffect(mem, destination.value > (0 - 1), source, config)
      [] opcode = 9 -> INP(mem, source, input)
      [] opcode = 10 -> Effect("ok", <<>>, Printed("OUT", source.value, <<>>))
      [] opcode = 11 -> OUTC(source)
      [] opcode = 12 -> Effect("ok", <<>>, Printed("OUTB", 0, source.bits))
      [] opcode = 13 -> Effect("ok", <<Write(destination.address,
                                             bitwise_and(source.bits, destination.bits))>>, <<>>)
      [] opcode = 14 -> Effect("ok", <<Write(destination.address,
                                             bitwise_or(source.bits, destination.bits))>>, <<>>)
      [] opcode = 15 -> Effect("ok", <<Write(destination.address, bitwise_not(source.bits))>>, <<>>)
      [] opcode = 16 -> Effect("ok", <<Write(destination.address,
                                             bitwise_xor(source.bits, destination.bits))>>, <<>>)
      [] opcode = 17 -> ShiftEffect(mem, logical_shift_left(destination.bits, source.value),
                                    destination, config)
      [] opcode = 18 -> ShiftEffect(mem, logical_shift_right(destination.bits, source.value),
                                    destination, config)
      [] opcode = 19 -> ShiftEffect(mem, arithmetic_shift_left(destination.bits, source.value),
                                    destination, config)
      [] opcode = 20 -> ShiftEffect(mem, arithmetic_shift_right(destination.bits, source.value),
                                    destination, config)
      [] opcode = 21 -> CircularEffect(circular_shift_left(destination.bits, source.value),
                                       destination)
      [] opcode = 22 -> CircularEffect(circular_shift_right(destination.bits, source.value),
                                       destination)
      [] opcode = 23 -> ShiftEffect(mem,
                                    circular_shift_left_carry(destination.bits,
                                                              CarryBit(mem, config), source.value),
                                    destination, config)
      [] opcode = 24 -> ShiftEffect(mem,
                                    circular_shift_right_carry(destination.bits,
                                                               CarryBit(mem, config), source.value),
                                    destination, config)
      [] opcode = 25 -> Effect("ok",
                               <<Write(return_register_address(config),
                                       Memory_get(mem, program_counter_address(config))),
                                 ValueWrite(mem, program_counter_address(config), source.address)>>,
                               <<>>)
      [] opcode = 26 -> Effect("ok",
                               <<Write(program_counter_address(config),
                                       Memory_get(mem, return_register_address(config)))>>,
                               <<>>)
      [] OTHER -> Effect("traceback", <<>>, <<>>)

\* the memory after the writes, up to the first that leaves the pool
RECURSIVE ApplyWrites(_, _, _)
ApplyWrites(mem, writes, index) ==
    IF index > Len(writes) THEN [outcome |-> "ok", memory |-> mem]
    ELSE IF Faults(mem, writes[index].address)
    THEN [outcome |-> "Segmentation Fault", memory |-> mem]
    ELSE ApplyWrites(Memory_insert_binary(mem, writes[index].address, writes[index].bits),
                     writes, index + 1)

-----------------------------------------------------------------------------
(* virtualmachine.py *)

NoValue == [fault |-> TRUE, address |-> 0, bits |-> <<>>, value |-> 0]

Found(address, bits, value) == [fault |-> FALSE, address |-> address, bits |-> bits, value |-> value]

VirtualMachine_resolve_operand(mem, addressing_mode, operand) ==
    LET operand_value == read_signed_int(operand)
    IN  IF Faults(mem, operand_value) THEN NoValue
        ELSE LET binary_at_operand == Memory_get(mem, operand_value)
                 value_at_operand == read_signed_int(binary_at_operand)
                 mode == read_unsigned_int(addressing_mode)
             IN  IF mode \in {REGISTER_MODE.opcode, DIRECT_MODE.opcode}
                 THEN Found(operand_value, binary_at_operand, value_at_operand)
                 ELSE IF mode = INDIRECT_MODE.opcode
                 THEN IF Faults(mem, value_at_operand) THEN NoValue
                      ELSE Found(value_at_operand, Memory_get(mem, value_at_operand),
                                 read_signed_int(Memory_get(mem, value_at_operand)))
                 ELSE Found(operand_value, signed_int(operand_value, mem.architecture),
                            operand_value)

\* a pass that leaves the PC register as it was before the instruction runs
handle_instruction_without_increment(mem, counter, config, input) ==
    LET counted == mem
        machine_code == Memory_get(mem, counter)
        upper_operation == machine_operation_bits
        upper_mode == upper_operation + addressing_mode_bits
        upper_source == upper_mode + operand_bits(config)
        upper_destination == upper_source + operand_bits(config)
        machine_operation == Slice(machine_code, 0, upper_operation)
        addressing_mode == Slice(machine_code, upper_operation, upper_mode)
        source_operand == Slice(machine_code, upper_mode, upper_source)
        destination_operand == Slice(machine_code, upper_source, upper_destination)
        source == VirtualMachine_resolve_operand(counted, addressing_mode, source_operand)
        destination == VirtualMachine_resolve_operand(counted, <<"0">>, destination_operand)
    IN  IF source.fault \/ destination.fault
        THEN [outcome |-> "Segmentation Fault", memory |-> counted, printed |-> <<>>]
        ELSE LET effect == execute(read_unsigned_int(machine_operation), source, destination,
                                   counted, config, input)
                 written == ApplyWrites(counted, effect.writes, 1)
             IN  [outcome |-> IF effect.outcome = "ok" THEN written.outcome ELSE effect.outcome,
                  memory |-> written.memory,
                  printed |-> IF written.outcome = "ok" THEN effect.printed ELSE <<>>]

\* a pass that hands the operands to the operation in the other order
handle_instruction_swapping_operands(mem, counter, config, input) ==
    LET counted == Memory_insert_binary(mem, program_counter_address(config),
                                        unsigned_int(counter + 1, mem.architecture))
        machine_code == Memory_get(mem, counter)
        upper_operation == machine_operation_bits
        upper_mode == upper_operation + addressing_mode_bits
        upper_source == upper_mode + operand_bits(config)
        upper_destination == upper_source + operand_bits(config)
        machine_operation == Slice(machine_code, 0, upper_operation)
        addressing_mode == Slice(machine_code, upper_operation, upper_mode)
        source_operand == Slice(machine_code, upper_mode, upper_source)
        destination_operand == Slice(machine_code, upper_source, upper_destination)
        source == VirtualMachine_resolve_operand(counted, addressing_mode, source_operand)
        destination == VirtualMachine_resolve_operand(counted, <<"0">>, destination_operand)
    IN  IF source.fault \/ destination.fault
        THEN [outcome |-> "Segmentation Fault", memory |-> counted, printed |-> <<>>]
        ELSE LET effect == execute(read_unsigned_int(machine_operation), destination, source,
                                   counted, config, input)
                 written == ApplyWrites(counted, effect.writes, 1)
             IN  [outcome |-> IF effect.outcome = "ok" THEN written.outcome ELSE effect.outcome,
                  memory |-> written.memory,
                  printed |-> IF written.outcome = "ok" THEN effect.printed ELSE <<>>]

\* one pass of the loop of run: the instruction at the program counter
handle_instruction(mem, counter, config, input) ==
    LET counted == Memory_insert_binary(mem, program_counter_address(config),
                                        unsigned_int(counter + 1, mem.architecture))
        machine_code == Memory_get(mem, counter)
        upper_operation == machine_operation_bits
        upper_mode == upper_operation + addressing_mode_bits
        upper_source == upper_mode + operand_bits(config)
        upper_destination == upper_source + operand_bits(config)
        machine_operation == Slice(machine_code, 0, upper_operation)
        addressing_mode == Slice(machine_code, upper_operation, upper_mode)
        source_operand == Slice(machine_code, upper_mode, upper_source)
        destination_operand == Slice(machine_code, upper_source, upper_destination)
        source == VirtualMachine_resolve_operand(counted, addressing_mode, source_operand)
        destination == VirtualMachine_resolve_operand(counted, <<"0">>, destination_operand)
    IN  IF source.fault \/ destination.fault
        THEN [outcome |-> "Segmentation Fault", memory |-> counted, printed |-> <<>>]
        ELSE LET effect == execute(read_unsigned_int(machine_operation), source, destination,
                                   counted, config, input)
                 written == ApplyWrites(counted, effect.writes, 1)
             IN  [outcome |-> IF effect.outcome = "ok" THEN written.outcome ELSE effect.outcome,
                  memory |-> written.memory,
                  printed |-> IF written.outcome = "ok" THEN effect.printed ELSE <<>>]

-----------------------------------------------------------------------------
(* The variables a specification does not use keep these values. *)

BsIdle ==
    /\ bs_value = 0 /\ bs_bits = 0 /\ bs_string = <<>> /\ bs_n = 0
    /\ bs_call = "idle" /\ bs_out = <<>> /\ bs_carry = "" /\ bs_int = 0

MainIdle ==
    /\ config_table = DefaultConfigTable
    /\ memory = None
    /\ exit_status = "running"

PipeIdle ==
    /\ next_stage = "idle" /\ started = <<>> /\ recorded_errors = <<>>
    /\ argv = <<>> /\ source_code = None /\ token_stream = <<>>
    /\ global_scope = None /\ procedure_table = <<>> /\ resolved_operands = <<>>
    /\ program_counter = 0 /\ stdout = <<>> /\ cycles = 0

MemIdle ==
    /\ access = [op |-> "none", address |-> 0, outcome |-> "none"]
    /\ accesses = 0

-----------------------------------------------------------------------------
(* The programs assembled and run: statements of the language, put into   *)
(* the global scope and into a procedure, and the programs that apply one  *)
(* machine operation to values read by INP.                                 *)

NL == <<"\n">>

StatementPool ==
    {<<<<"L", "D", "A">>, <<"#">>, <<"5">>, <<",">>, <<"%">>, <<"A", "C", "C">>>>,
     <<<<"L", "D", "A">>, <<"#">>, <<"-", "5">>, <<",">>, <<"%">>, <<"R", "1">>>>,
     <<<<"L", "D", "A">>, <<"X">>, <<",">>, <<"%">>, <<"R", "2">>>>,
     <<<<"L", "D", "A">>, <<"#">>, <<"1">>, <<",">>, <<"%">>, <<"R", "E", "G", "0", "0">>>>,
     <<<<"L", "D", "A">>, <<"#">>, <<"5">>, <<",">>, <<"#">>, <<"3">>>>,
     <<<<"S", "T", "A">>, <<"%">>, <<"A", "C", "C">>, <<",">>, <<"X">>>>,
     <<<<"L", "D", "A">>, <<"#">>, <<"5">>, <<",">>, <<"#">>, <<"3">>, <<",">>, <<"#">>, <<"4">>>>,
     <<<<"A", "D", "D">>, <<"Y">>>>,
     <<<<"O", "U", "T">>, <<"%">>, <<"R", "9">>>>,
     <<<<"H", "L", "T">>>>,
     <<<<"X">>, <<"D", "A", "T">>, <<"3">>>>,
     <<<<"X">>, <<"H", "L", "T">>>>,
     <<<<"O", "U", "T">>, <<"5", "A">>>>,
     <<<<"L", "D", "A">>, <<"#">>, <<"5">>, <<"#">>, <<"3">>>>,
     <<<<"L", "D", "A">>, <<"#">>, <<"5">>, <<",">>, <<"R", "E", "G", "I", "S", "T", "E", "R", "0">>>>,
     <<<<"A", "D", "D">>>>,
     <<<<"O", "U", "T">>, <<"%">>, <<"R", "E", "G", "0">>>>}

\* the statements, each on a line of its own
RECURSIVE Lines(_)
Lines(body) == IF body = <<>> THEN <<>> ELSE Head(body) \o <<NL>> \o Lines(Tail(body))

Bodies == UNION {[1..n -> StatementPool] : n \in 1..MaxStatements}

ProcedureHead == <<<<"P">>, <<LEFT_SCOPE>>, NL>>

ProcedureTail == <<<<RIGHT_SCOPE>>, NL>>

GlobalProgram(body) == Lines(body)

ProcedureProgram(body) == ProcedureHead \o Lines(body) \o ProcedureTail

\* the closing brace on the line of the last statement
BracedProgram(body) == ProcedureHead \o Lines(Front(body)) \o Last(body) \o ProcedureTail

\* the first statement in the global scope, the others in a procedure
MixedProgram(body) == Lines(<<Head(body)>>) \o ProcedureHead \o Lines(Tail(body)) \o ProcedureTail

StatementPrograms ==
    {GlobalProgram(body) : body \in Bodies}
        \cup {ProcedureProgram(body) : body \in Bodies}
        \cup {BracedProgram(body) : body \in Bodies}
        \cup {MixedProgram(body) : body \in Bodies}

TwoOperandMnemonics ==
    {<<"A", "D", "D">>,
     <<"S", "U", "B">>,
     <<"S", "T", "A">>,
     <<"L", "D", "A">>,
     <<"B", "R", "A">>,
     <<"B", "R", "Z">>,
     <<"B", "R", "P">>,
     <<"A", "N", "D">>,
     <<"O", "R">>,
     <<"N", "O", "T">>,
     <<"X", "O", "R">>,
     <<"L", "S", "L">>,
     <<"L", "S", "R">>,
     <<"A", "S", "L">>,
     <<"A", "S", "R">>,
     <<"C", "S", "L">>,
     <<"C", "S", "R">>,
     <<"C", "S", "L", "C">>,
     <<"C", "S", "R", "C">>}

OneOperandMnemonics ==
    {<<"I", "N", "P">>,
     <<"O", "U", "T">>,
     <<"O", "U", "T", "C">>,
     <<"O", "U", "T", "B">>,
     <<"C", "A", "L", "L">>}

NoOperandMnemonics ==
    {<<"N", "O", "P">>,
     <<"R", "E", "T">>,
     <<"H", "L", "T">>}

SourceOperands ==
    {<<<<"%">>, <<"R", "1">>>>,
     <<<<"#">>, <<"3">>>>,
     <<<<"#">>, <<"-", "3">>>>,
     <<<<"V">>>>,
     <<<<">">>, <<"V">>>>,
     <<<<"L">>>>}

\* two values are read, the statement runs, then the program halts; a branch
\* back to the halt and a variable follow
MachineProgram(statement) ==
    Lines(<<<<<<"I", "N", "P">>, <<"%">>, <<"R", "1">>>>, <<<<"I", "N", "P">>, <<"%">>, <<"A", "C", "C">>>>, statement, <<<<"L">>, <<"H", "L", "T">>>>, <<<<"B", "R", "A">>, <<"L">>>>, <<<<"V">>, <<"D", "A", "T">>, <<"2">>>>>>)

MachinePrograms ==
    {MachineProgram(<<mnemonic>> \o source \o <<<<",">>, <<"%">>, <<"A", "C", "C">>>>) :
         mnemonic \in TwoOperandMnemonics, source \in SourceOperands}
        \cup {MachineProgram(<<mnemonic>> \o source) :
                  mnemonic \in OneOperandMnemonics, source \in SourceOperands}
        \cup {MachineProgram(<<mnemonic>>) : mnemonic \in NoOperandMnemonics}

\* a procedure called and returned from
CallProgram ==
    Lines(<<<<<<"C", "A", "L", "L">>, <<"P">>>>, <<<<"H", "L", "T">>>>>>) \o ProcedureHead \o Lines(<<<<<<"O", "U", "T">>, <<"%">>, <<"A", "C", "C">>>>, <<<<"R", "E", "T">>>>>>) \o ProcedureTail

\* statements with an operand, an addressing mode or both left out
OmittedPool ==
    {<<<<"O", "U", "T">>>>,
     <<<<"I", "N", "P">>>>,
     <<<<"C", "A", "L", "L">>>>,
     <<<<"S", "U", "B">>, <<"#">>, <<"1">>>>,
     <<<<"A", "D", "D">>, <<"R", "1">>>>,
     <<<<"L", "D", "A">>, <<"5">>, <<",">>, <<"R", "1">>>>,
     <<<<"B", "R", "A">>>>,
     <<<<"L", "D", "A">>, <<"X">>, <<"R", "1">>>>}

OmittedPrograms ==
    {GlobalProgram(<<statement>>) : statement \in OmittedPool}
        \cup {ProcedureProgram(<<statement>>) : statement \in OmittedPool}
        \cup {GlobalProgram(<<<<<<"O", "U", "T">>>>, <<<<"A", "D", "D">>>>>>)}

\* an opening brace at the head of the file, on the line of a statement and
\* on the line after a statement; the braces enclose one instruction
BracePool == StatementPool \cup {<<<<"O", "U", "T">>, <<"#">>, <<"5">>>>}

BracePrograms ==
    {<<<<LEFT_SCOPE>>, NL>> \o Lines(<<statement>>) \o ProcedureTail : statement \in BracePool}
        \cup {statement \o <<<<LEFT_SCOPE>>, NL>> \o Lines(<<<<<<"H", "L", "T">>>>>>) \o ProcedureTail :
                  statement \in BracePool}
        \cup {Lines(<<statement>>) \o <<<<LEFT_SCOPE>>, NL>> \o Lines(<<<<<<"H", "L", "T">>>>>>) \o ProcedureTail :
                  statement \in BracePool}

\* one lexeme of each type of token, the line break for END
LexemePool ==
    {<<"H", "L", "T">>, <<"#">>, <<"5">>, <<"R", "1">>, <<"X">>, <<SEPARATOR>>,
     <<LEFT_SCOPE>>, <<RIGHT_SCOPE>>, DAT, NL}

\* every pair of lexemes on a line
PairPrograms == {<<first, second, NL>> : first \in LexemePool, second \in LexemePool}

\* the flags register is read from the input and then shifted by 1
\* REGISTERS=124 on the command line and MEMORY=128 in the source file: the
\* registers and the memory addresses are both 128 = 2^7
EdgeArguments ==
    <<<<<<"R", "E", "G", "I", "S", "T", "E", "R", "S">>, <<"1", "2", "4">>>>>>

EdgeDirectives ==
    <<<<<<"M", "E", "M", "O", "R", "Y">>, <<"1", "2", "8">>>>>>

\* a shift that sets the carry, then the flags register is printed
CarryProgram ==
    Lines(<<<<<<"L", "D", "A">>, <<"#">>, <<"1">>, <<",">>, <<"%">>, <<"A", "C", "C">>>>,
            <<<<"L", "S", "R">>, <<"#">>, <<"1">>, <<",">>, <<"%">>, <<"A", "C", "C">>>>,
            <<<<"O", "U", "T">>, <<"%">>, <<"F", "R">>>>,
            <<<<"H", "L", "T">>>>>>)

\* values that are a lone sign, as an operand and as an initialiser, beside
\* a signed value and a value with a letter
SignPrograms ==
    {Lines(<<<<<<"L", "D", "A">>, <<"#">>, <<"-">>, <<",">>, <<"%">>, <<"A", "C", "C">>>>,
             <<<<"O", "U", "T">>, <<"%">>, <<"A", "C", "C">>>>,
             <<<<"H", "L", "T">>>>>>),
     Lines(<<<<<<"O", "U", "T">>, <<"#">>, <<"+">>>>,
             <<<<"H", "L", "T">>>>>>),
     Lines(<<<<<<"O", "U", "T">>, <<"#">>, <<"+", "5">>>>,
             <<<<"H", "L", "T">>>>>>),
     Lines(<<<<<<"O", "U", "T">>, <<"#">>, <<"-", "x">>>>,
             <<<<"H", "L", "T">>>>>>),
     Lines(<<<<<<"O", "U", "T">>, <<"X">>>>,
             <<<<"H", "L", "T">>>>,
             <<<<"X">>, <<"D", "A", "T">>, <<"+">>>>>>),
     Lines(<<<<<<"O", "U", "T">>, <<"X">>>>,
             <<<<"H", "L", "T">>>>,
             <<<<"X">>, <<"D", "A", "T">>, <<"-", "4">>>>>>)}

\* a register and the flags register are read and copied, then the register
\* is rotated through the carry to the left and back to the right
RotationProgram(count, register) ==
    Lines(<<<<<<"I", "N", "P">>, <<"%">>, <<"R", "1">>>>,
            <<<<"I", "N", "P">>, <<"%">>, <<"F", "R">>>>,
            <<<<"L", "D", "A">>, <<"%">>, <<"R", "1">>, <<",">>, <<"%">>, <<"R", "2">>>>,
            <<<<"L", "D", "A">>, <<"%">>, <<"F", "R">>, <<",">>, <<"%">>, <<"R", "3">>>>,
            <<<<"C", "S", "L", "C">>, <<"#">>, count, <<",">>, <<"%">>, register>>,
            <<<<"C", "S", "R", "C">>, <<"#">>, count, <<",">>, <<"%">>, register>>,
            <<<<"H", "L", "T">>>>>>)

\* 1, a count within the width, the W+1 = 24 places of the register and the
\* carry, and one more
RotationCounts == {<<"1">>, <<"3">>, <<"2", "4">>, <<"2", "5">>}

RotationPrograms ==
    {RotationProgram(count, register) :
         count \in RotationCounts, register \in {<<"R", "1">>, <<"F", "R">>}}

FlagsProgram(mnemonic) ==
    Lines(<<<<<<"I", "N", "P">>, <<"%">>, <<"F", "R">>>>,
            <<mnemonic, <<"#">>, <<"1">>, <<",">>, <<"%">>, <<"F", "R">>>>,
            <<<<"H", "L", "T">>>>>>)

FlagsPrograms ==
    {FlagsProgram(mnemonic) :
         mnemonic \in {<<"L", "S", "L">>, <<"L", "S", "R">>, <<"A", "S", "L">>, <<"A", "S", "R">>,
                        <<"C", "S", "L">>, <<"C", "S", "R">>}}

\* a branch or a variable of the global scope with the name of the
\* procedure, declared before the procedure and after it
ProcedureNamePrograms ==
    {Lines(<<declaration>>) \o ProcedureHead \o Lines(<<<<<<"H", "L", "T">>>>>>) \o ProcedureTail :
         declaration \in {<<<<"P">>, <<"H", "L", "T">>>>, <<<<"P">>, <<"D", "A", "T">>, <<"3">>>>}}
        \cup {ProcedureHead \o Lines(<<<<<<"H", "L", "T">>>>>>) \o ProcedureTail \o Lines(<<declaration>>) :
                  declaration \in {<<<<"P">>, <<"H", "L", "T">>>>, <<<<"P">>, <<"D", "A", "T">>, <<"3">>>>}}

\* an immediate value is loaded and printed: the values at the ends of the
\* operand field and on both sides of the last register
ImmediatePrograms ==
    {Lines(<<<<<<"L", "D", "A">>, <<"#">>, value, <<",">>, <<"%">>, <<"A", "C", "C">>>>,
             <<<<"O", "U", "T">>, <<"%">>, <<"A", "C", "C">>>>,
             <<<<"H", "L", "T">>>>>>) :
         value \in {<<"-", "8">>, <<"-", "7">>, <<"1", "2", "7">>, <<"-", "1", "2", "7">>}}

\* every sequence of four braces, each on a line of its own
BraceSequences ==
    {Lines(<<<<<<first>>>>, <<<<second>>>>, <<<<third>>>>, <<<<fourth>>>>>>) :
         first \in {LEFT_SCOPE, RIGHT_SCOPE}, second \in {LEFT_SCOPE, RIGHT_SCOPE},
         third \in {LEFT_SCOPE, RIGHT_SCOPE}, fourth \in {LEFT_SCOPE, RIGHT_SCOPE}}

\* a loop that prints a counter down to 0: with the register as the source
\* of STA and with the variable as its source
CountdownProgram(store) ==
    Lines(<<<<<<"L", "O", "O", "P">>, <<"L", "D", "A">>, <<"C", "O", "U", "N", "T">>, <<",">>, <<"%">>, <<"A", "C", "C">>>>,
            <<<<"O", "U", "T">>, <<"%">>, <<"A", "C", "C">>>>,
            <<<<"S", "U", "B">>, <<"#">>, <<"1">>, <<",">>, <<"%">>, <<"A", "C", "C">>>>,
            store,
            <<<<"B", "R", "P">>, <<"L", "O", "O", "P">>, <<",">>, <<"%">>, <<"A", "C", "C">>>>,
            <<<<"H", "L", "T">>>>,
            <<<<"C", "O", "U", "N", "T">>, <<"D", "A", "T">>, <<"3">>>>>>)

StoreRegister == <<<<"S", "T", "A">>, <<"%">>, <<"A", "C", "C">>, <<",">>, <<"C", "O", "U", "N", "T">>>>

StoreVariable == <<<<"S", "T", "A">>, <<"C", "O", "U", "N", "T">>, <<",">>, <<"%">>, <<"A", "C", "C">>>>

CountdownPrograms == {CountdownProgram(StoreRegister), CountdownProgram(StoreVariable)}

\* a global scope and two procedures, each scope with instructions, and
\* with branches and variables among them
LayoutProgram ==
    Lines(<<<<<<"L", "D", "A">>, <<"V">>, <<",">>, <<"%">>, <<"A", "C", "C">>>>,
            <<<<"C", "A", "L", "L">>, <<"P">>>>,
            <<<<"L">>, <<"H", "L", "T">>>>,
            <<<<"V">>, <<"D", "A", "T">>, <<"2">>>>>>)
        \o ProcedureHead
        \o Lines(<<<<<<"M">>, <<"O", "U", "T">>, <<"X">>>>,
                   <<<<"R", "E", "T">>>>,
                   <<<<"X">>, <<"D", "A", "T">>, <<"3">>>>>>)
        \o ProcedureTail
        \o <<<<"Q">>, <<LEFT_SCOPE>>, NL>>
        \o Lines(<<<<<<"N", "O", "P">>>>, <<<<"N">>, <<"R", "E", "T">>>>>>)
        \o ProcedureTail

\* what is typed at the prompt of INP
Inputs ==
    {<<"0">>,
     <<"3">>,
     <<"-", "3">>,
     <<"2", "5">>,
     <<"4", "1", "9", "4", "3", "0", "5">>,
     <<"x">>}

DirectivePool ==
    {<<<<"M", "E", "M", "O", "R", "Y">>, <<"1", "0", "0">>>>,
     <<<<"M", "E", "M", "O", "R", "Y">>, <<"1", "3", "0">>>>,
     <<<<"M", "E", "M", "O", "R", "Y">>, <<"9", "9">>>>,
     <<<<"R", "E", "G", "I", "S", "T", "E", "R", "S">>, <<"5">>>>,
     <<<<"R", "E", "G", "I", "S", "T", "E", "R", "S">>, <<"+", "4">>>>,
     <<<<"R", "E", "G", "I", "S", "T", "E", "R", "S">>, <<"4", "x">>>>,
     <<<<"F", "O", "O">>, <<"1">>>>,
     <<<<"M", "E", "M", "O", "R", "Y">>>>,
     <<<<"C", "L", "O", "C", "K">>, <<"0">>>>}

DirectiveLists == {<<>>} \cup {<<directive>> : directive \in DirectivePool}

-----------------------------------------------------------------------------
(* chadsembler.py, main: one action for each stage, in the order main runs *)
(* them, and one for each pass of the loop of VirtualMachine.run.           *)

StageOrder ==
    <<"ArgumentProcessor", "Preprocessor", "Lexer", "Parser", "InstructionPools",
      "SemanticAnalyser", "CodeGenerator", "VirtualMachine">>

get_errors_and_go_on(errors) == "running"

\* Errors.get_errors: exit(-1) when there are errors
get_errors(errors) == IF errors # <<>> THEN "-1" ELSE "running"

\* Parser.__get_errors
Parser_get_errors(errors) == IF errors # <<>> THEN "-1" ELSE "running"

\* the stage after the one that ends with this status
Continue(status, following) == IF status = "running" THEN following ELSE "exited"

ArgumentProcessor ==
    /\ next_stage = "ArgumentProcessor"
    /\ LET run == parse_directives("ArgumentProcessor", argv, config_table, 1)
       IN  /\ config_table' = run.config
           /\ recorded_errors' = run.errors
           /\ exit_status' = get_errors(run.errors)
           /\ next_stage' = Continue(get_errors(run.errors), "Preprocessor")
    /\ started' = Append(started, "ArgumentProcessor")
    /\ UNCHANGED <<memory, argv, source_code, token_stream, global_scope, procedure_table,
                   resolved_operands, program_counter, stdout, cycles, bsvars, memvars>>

Preprocessor ==
    /\ next_stage = "Preprocessor"
    /\ LET run == parse_directives("Preprocessor", source_code.directives, config_table, 1)
       IN  /\ config_table' = run.config
           /\ recorded_errors' = run.errors
           /\ exit_status' = get_errors(run.errors)
           /\ next_stage' = Continue(get_errors(run.errors), "Lexer")
    /\ started' = Append(started, "Preprocessor")
    /\ UNCHANGED <<memory, argv, source_code, token_stream, global_scope, procedure_table,
                   resolved_operands, program_counter, stdout, cycles, bsvars, memvars>>

Lexer ==
    /\ next_stage = "Lexer"
    /\ LET run == Lexer_run(source_code)
       IN  /\ token_stream' = run.tokens
           /\ recorded_errors' = run.errors
           /\ exit_status' = get_errors(run.errors)
           /\ next_stage' = Continue(get_errors(run.errors), "Parser")
    /\ started' = Append(started, "Lexer")
    /\ UNCHANGED <<config_table, memory, argv, source_code, global_scope, procedure_table,
                   resolved_operands, program_counter, stdout, cycles, bsvars, memvars>>

Parser ==
    /\ next_stage = "Parser"
    /\ LET run == Parser_run(token_stream)
       IN  /\ recorded_errors' = run
           /\ exit_status' = Parser_get_errors(run)
           /\ next_stage' = Continue(Parser_get_errors(run), "InstructionPools")
    /\ started' = Append(started, "Parser")
    /\ UNCHANGED <<config_table, memory, argv, source_code, token_stream, global_scope,
                   procedure_table, resolved_operands, program_counter, stdout, cycles,
                   bsvars, memvars>>

InstructionPools ==
    /\ next_stage = "InstructionPools"
    /\ \E run \in {InstructionPools_run(token_stream)} :
           \E status \in {IF run.crash THEN "traceback" ELSE get_errors(run.errors)} :
           /\ global_scope' = run.global_scope
           /\ procedure_table' = run.procedure_scopes
           /\ recorded_errors' = run.errors
           /\ exit_status' = status
           /\ next_stage' = Continue(status, "SemanticAnalyser")
    /\ started' = Append(started, "InstructionPools")
    /\ UNCHANGED <<config_table, memory, argv, source_code, token_stream,
                   resolved_operands, program_counter, stdout, cycles, bsvars, memvars>>

SemanticAnalyser ==
    /\ next_stage = "SemanticAnalyser"
    /\ \E run \in {SemanticAnalyser_run(global_scope, procedure_table)} :
           \E status \in {IF run.crash THEN "traceback" ELSE get_errors(run.errors)} :
           /\ global_scope' = run.global_scope
           /\ procedure_table' = run.procedure_scopes
           /\ recorded_errors' = run.errors
           /\ exit_status' = status
           /\ next_stage' = Continue(status, "CodeGenerator")
    /\ started' = Append(started, "SemanticAnalyser")
    /\ UNCHANGED <<config_table, memory, argv, source_code, token_stream,
                   resolved_operands, program_counter, stdout, cycles, bsvars, memvars>>

CodeGenerator ==
    /\ next_stage = "CodeGenerator"
    /\ \E run \in {CodeGenerator_run(global_scope, procedure_table, config_table)} :
           \E status \in {IF run.outcome = "ok" THEN "running" ELSE run.outcome} :
           /\ memory' = run.memory
           /\ global_scope' = [global_scope EXCEPT !.symbol_table = run.global_symbol_table]
           /\ procedure_table' = run.procedure_scopes
           /\ resolved_operands' = run.resolved
           /\ exit_status' = status
           /\ next_stage' = Continue(status, "VirtualMachine")
    /\ recorded_errors' = <<>>
    /\ started' = Append(started, "CodeGenerator")
    /\ UNCHANGED <<config_table, argv, source_code, token_stream,
                   program_counter, stdout, cycles, bsvars, memvars>>

\* VirtualMachine.run up to its loop
VirtualMachine ==
    /\ next_stage = "VirtualMachine"
    /\ program_counter' = 0
    /\ next_stage' = "VirtualMachine.run"
    /\ started' = Append(started, "VirtualMachine")
    /\ UNCHANGED <<config_table, memory, exit_status, recorded_errors, argv, source_code,
                   token_stream, global_scope, procedure_table, resolved_operands,
                   stdout, cycles, bsvars, memvars>>

\* one pass of the loop of VirtualMachine.run
Cycle ==
    /\ next_stage = "VirtualMachine.run"
    /\ cycles < MaxCycles
    /\ cycles' = cycles + 1
    /\ IF Faults(memory, program_counter)
       THEN /\ exit_status' = "Segmentation Fault"
            /\ next_stage' = "exited"
            /\ UNCHANGED <<memory, program_counter, stdout>>
       ELSE \E input \in Inputs :
                \E run \in {handle_instruction(memory, program_counter, config_table, input)} :
                    /\ memory' = run.memory
                    /\ stdout' = stdout \o run.printed
                    /\ exit_status' = CASE run.outcome = "ok" -> "running"
                                        [] run.outcome = "halt" -> "0"
                                        [] OTHER -> run.outcome
                    /\ next_stage' = IF run.outcome = "ok" THEN "VirtualMachine.run" ELSE "exited"
                    /\ program_counter' =
                           IF run.outcome = "ok"
                           THEN read_unsigned_int(
                                    Memory_get(run.memory, program_counter_address(config_table)))
                           ELSE program_counter
    /\ UNCHANGED <<config_table, recorded_errors, started, argv, source_code, token_stream,
                   global_scope, procedure_table, resolved_operands, bsvars, memvars>>

Next ==
    \/ ArgumentProcessor
    \/ Preprocessor
    \/ Lexer
    \/ Parser
    \/ InstructionPools
    \/ SemanticAnalyser
    \/ CodeGenerator
    \/ VirtualMachine
    \/ Cycle

Init ==
    /\ BsIdle
    /\ MemIdle
    /\ MainIdle
    /\ next_stage = "ArgumentProcessor"
    /\ started = <<>>
    /\ recorded_errors = <<>>
    /\ \/ /\ argv = <<>>
          /\ source_code \in [directives : {<<>>},
                              lexemes : StatementPrograms \cup MachinePrograms \cup {CallProgram}
                                            \cup OmittedPrograms \cup BracePrograms
                                            \cup PairPrograms \cup CountdownPrograms \cup {LayoutProgram}
                                            \cup BraceSequences \cup FlagsPrograms
                                            \cup ProcedureNamePrograms \cup ImmediatePrograms
                                            \cup SignPrograms \cup RotationPrograms]
       \/ /\ argv \in DirectiveLists
          /\ source_code \in [directives : DirectiveLists, lexemes : {CallProgram}]
       \/ /\ argv \in {<<>>, EdgeArguments}
          /\ source_code \in [directives : {<<>>, EdgeDirectives}, lexemes : {CarryProgram}]
    /\ token_stream = <<>>
    /\ global_scope = None
    /\ procedure_table = <<>>
    /\ resolved_operands = <<>>
    /\ program_counter = 0
    /\ stdout = <<>>
    /\ cycles = 0

Spec == Init /\ [][Next]_vars

-----------------------------------------------------------------------------
(* The Memory specification: a Memory built by the code generator for a    *)
(* configuration, then calls of get, insert_binary and insert_value.       *)

\* the addresses tried: both ends of the register file, of the configured
\* memory size and of the pool
AccessAddresses(config) ==
    LET R == number_registers(config)
        M == number_memory_addresses(config)
        top == Pow2(operand_bits(config) - 1)
    IN  {0 - R - 1, 0 - R, 0 - 1, 0, M - 1, M, top - 1, top}

InitMemory ==
    /\ BsIdle
    /\ PipeIdle
    /\ config_table \in ConfigTables
    /\ memory = MemoryOf(config_table)
    /\ exit_status = "running"
    /\ MemIdle

MemoryCall(op, address, mem) ==
    /\ exit_status = "running"
    /\ accesses < MaxAccesses
    /\ accesses' = accesses + 1
    /\ IF Faults(memory, address)
       THEN /\ exit_status' = "Segmentation Fault"
            /\ access' = [op |-> op, address |-> address, outcome |-> "exit"]
            /\ UNCHANGED memory
       ELSE /\ access' = [op |-> op, address |-> address, outcome |-> "returned"]
            /\ memory' = mem
            /\ UNCHANGED exit_status
    /\ UNCHANGED <<config_table, bsvars, pipevars>>

Get ==
    \E address \in AccessAddresses(config_table) :
        MemoryCall("get", address, memory)

InsertBinary ==
    \E address \in AccessAddresses(config_table) :
        \E value \in {Repeat("1", memory.architecture)} :
            MemoryCall("insert_binary", address, Memory_insert_binary(memory, address, value))

InsertValue ==
    \E address \in AccessAddresses(config_table) :
        \E value \in {0 - 3, 5} :
            MemoryCall("insert_value", address, Memory_insert_value(memory, address, value))

NextMemory == Get \/ InsertBinary \/ InsertValue

SpecMemory == InitMemory /\ [][NextMemory]_vars

-----------------------------------------------------------------------------
(* The bit-string specification: Init draws the arguments, the actions     *)
(* apply the functions of binarystring.py to them.                         *)

InitBinaryString ==
    /\ MainIdle
    /\ MemIdle
    /\ PipeIdle
    /\ \/ /\ bs_value \in (0 - MaxValue)..MaxValue
          /\ bs_bits \in 0..MaxBits
          /\ bs_string = <<>>
          /\ bs_n = 0
          /\ bs_call = "encode"
       \/ /\ bs_value = 0
          /\ bs_bits = 0
          /\ bs_string \in UNION {BitStrings(k) : k \in 1..MaxLen}
          /\ bs_n \in (0 - 1)..MaxShift
          /\ bs_call = "shift"
    /\ bs_out = <<>>
    /\ bs_carry = ""
    /\ bs_int = 0

CallUnsignedInt ==
    /\ bs_call = "encode"
    /\ bs_out' = unsigned_int(bs_value, bs_bits)
    /\ bs_call' = "unsigned_int"
    /\ UNCHANGED <<bs_value, bs_bits, bs_string, bs_n, bs_carry, bs_int>>
    /\ UNCHANGED <<config_table, memory, exit_status, memvars, pipevars>>

CallReadUnsignedInt ==
    /\ bs_call = "unsigned_int"
    /\ bs_int' = read_unsigned_int(bs_out)
    /\ bs_call' = "read_unsigned_int"
    /\ UNCHANGED <<bs_value, bs_bits, bs_string, bs_n, bs_carry, bs_out>>
    /\ UNCHANGED <<config_table, memory, exit_status, memvars, pipevars>>

CallSignedInt ==
    /\ bs_call = "encode"
    /\ bs_out' = signed_int(bs_value, bs_bits)
    /\ bs_call' = "signed_int"
    /\ UNCHANGED <<bs_value, bs_bits, bs_string, bs_n, bs_carry, bs_int>>
    /\ UNCHANGED <<config_table, memory, exit_status, memvars, pipevars>>

CallReadSignedInt ==
    /\ bs_call = "signed_int"
    /\ bs_int' = read_signed_int(bs_out)
    /\ bs_call' = "read_signed_int"
    /\ UNCHANGED <<bs_value, bs_bits, bs_string, bs_n, bs_carry, bs_out>>
    /\ UNCHANGED <<config_table, memory, exit_status, memvars, pipevars>>

\* a caller keeps the string it had when a circular shift returns None
CallCircularShiftLeft ==
    /\ bs_call = "shift"
    /\ LET shift == circular_shift_left(bs_string, bs_n)
       IN  bs_out' = IF shift # None THEN shift ELSE bs_string
    /\ bs_call' = "circular_shift_left"
    /\ UNCHANGED <<bs_value, bs_bits, bs_string, bs_n, bs_carry, bs_int>>
    /\ UNCHANGED <<config_table, memory, exit_status, memvars, pipevars>>

CallCircularShiftRight ==
    /\ bs_call = "circular_shift_left"
    /\ LET shift == circular_shift_right(bs_out, bs_n)
       IN  bs_out' = IF shift # None THEN shift ELSE bs_out
    /\ bs_call' = "circular_shift_left_right"
    /\ UNCHANGED <<bs_value, bs_bits, bs_string, bs_n, bs_carry, bs_int>>
    /\ UNCHANGED <<config_table, memory, exit_status, memvars, pipevars>>

\* a caller of a shift that returns None writes nothing: the string is kept
\* and there is no carry
CallLogicalShiftLeft ==
    /\ bs_call = "shift"
    /\ \E shift \in {logical_shift_left(bs_string, bs_n)} :
           /\ bs_carry' = IF shift # None THEN shift[1] ELSE ""
           /\ bs_out' = IF shift # None THEN shift[2] ELSE bs_string
    /\ bs_call' = "logical_shift_left"
    /\ UNCHANGED <<bs_value, bs_bits, bs_string, bs_n, bs_int>>
    /\ UNCHANGED <<config_table, memory, exit_status, memvars, pipevars>>

CallLogicalShiftRight ==
    /\ bs_call = "shift"
    /\ \E shift \in {logical_shift_right(bs_string, bs_n)} :
           /\ bs_carry' = IF shift # None THEN shift[1] ELSE ""
           /\ bs_out' = IF shift # None THEN shift[2] ELSE bs_string
    /\ bs_call' = "logical_shift_right"
    /\ UNCHANGED <<bs_value, bs_bits, bs_string, bs_n, bs_int>>
    /\ UNCHANGED <<config_table, memory, exit_status, memvars, pipevars>>

CallArithmeticShiftRight ==
    /\ bs_call = "shift"
    /\ \E shift \in {arithmetic_shift_right(bs_string, bs_n)} :
           /\ bs_carry' = IF shift # None THEN shift[1] ELSE ""
           /\ bs_out' = IF shift # None THEN shift[2] ELSE bs_string
    /\ bs_call' = "arithmetic_shift_right"
    /\ UNCHANGED <<bs_value, bs_bits, bs_string, bs_n, bs_int>>
    /\ UNCHANGED <<config_table, memory, exit_status, memvars, pipevars>>

NextBinaryString ==
    \/ CallLogicalShiftLeft
    \/ CallLogicalShiftRight
    \/ CallArithmeticShiftRight
    \/ CallUnsignedInt
    \/ CallReadUnsignedInt
    \/ CallSignedInt
    \/ CallReadSignedInt
    \/ CallCircularShiftLeft
    \/ CallCircularShiftRight

SpecBinaryString == InitBinaryString /\ [][NextBinaryString]_vars

-----------------------------------------------------------------------------
(* Properties of the bit-string layer *)

IsBitString(s, k) == Len(s) = k /\ \A i \in 1..Len(s) : s[i] \in {"0", "1"}

\* the value of a bit-string read most significant bit first
RECURSIVE Weight(_)
Weight(s) == IF Len(s) = 0 THEN 0 ELSE Bit(s[1]) * Pow2(Len(s) - 1) + Weight(Tail(s))

Abs(v) == IF v < 0 THEN 0 - v ELSE v

\* C7: for every integer v and width n >= 1, unsigned_int(v, n) is a string
\* of exactly n characters over {'0','1'} and read_unsigned_int of it is
\* v mod 2^n, the residue r in 0..2^n-1 with v = k*2^n + r.
C7_UnsignedRoundTrip ==
    /\ (bs_call = "unsigned_int" /\ bs_bits >= 1) => IsBitString(bs_out, bs_bits)
    /\ (bs_call = "read_unsigned_int" /\ bs_bits >= 1) =>
           /\ bs_int \in 0..(Pow2(bs_bits) - 1)
           /\ \E k \in (0 - Abs(bs_value))..Abs(bs_value) :
                  bs_value = k * Pow2(bs_bits) + bs_int

C7_Witness ==
    /\ bs_call = "read_unsigned_int"
    /\ bs_value = 0 - 5
    /\ bs_bits = 2
    /\ bs_out = <<"1", "1">>
    /\ bs_int = 3

\* C8: for every width n >= 2 and every v with |v| < 2^(n-1), signed_int(v, n)
\* has exactly n characters, its first character is '1' iff v < 0, its other
\* n-1 characters encode |v|, read_signed_int of it is v, and signed_int(0, n)
\* is n zeros.
C8_SignedRoundTrip ==
    (bs_bits >= 2 /\ Abs(bs_value) < Pow2(bs_bits - 1)) =>
        /\ bs_call \in {"signed_int", "read_signed_int"} =>
               /\ IsBitString(bs_out, bs_bits)
               /\ (bs_out[1] = "1") <=> (bs_value < 0)
               /\ Weight(Tail(bs_out)) = Abs(bs_value)
               /\ bs_value = 0 => bs_out = Repeat("0", bs_bits)
        /\ bs_call = "read_signed_int" => bs_int = bs_value

C8_Witness ==
    /\ bs_call = "read_signed_int"
    /\ bs_value = 0 - 5
    /\ bs_bits = 4
    /\ bs_out = <<"1", "1", "0", "1">>
    /\ bs_int = 0 - 5

\* C9: for every non-empty bit-string s and every n with 0 < n <= |s|,
\* circular_shift_left by n followed by circular_shift_right by n gives s
\* back, a None result of either shift leaving the string as it was.
C9_CircularRoundTrip ==
    (bs_call = "circular_shift_left_right" /\ 0 < bs_n /\ bs_n <= Len(bs_string)) =>
        bs_out = bs_string

C9_Witness ==
    /\ bs_call = "circular_shift_left_right"
    /\ bs_string = <<"1", "0", "0">>
    /\ bs_n = 1
    /\ bs_out = bs_string

\* C16 as stated: for every bit-string s of width w and every n >= w, both
\* logical shifts return w zeros together with the carry '0'.
C16_AsStated ==
    (bs_call \in {"logical_shift_left", "logical_shift_right"} /\ bs_n >= Len(bs_string)) =>
        /\ bs_out = Repeat("0", Len(bs_string))
        /\ bs_carry = "0"

\* C16: for every bit-string s of width w and every n >= w, both logical
\* shifts return w zeros; the carry is '0' when n > w, and when n = w it is
\* the bit that fell off last: the last bit of s for the left shift, the
\* first bit of s for the right shift.
C16_LogicalShiftOut ==
    /\ (bs_call = "logical_shift_left" /\ bs_n >= Len(bs_string)) =>
           /\ bs_out = Repeat("0", Len(bs_string))
           /\ bs_carry = IF bs_n = Len(bs_string) THEN bs_string[Len(bs_string)] ELSE "0"
    /\ (bs_call = "logical_shift_right" /\ bs_n >= Len(bs_string)) =>
           /\ bs_out = Repeat("0", Len(bs_string))
           /\ bs_carry = IF bs_n = Len(bs_string) THEN bs_string[1] ELSE "0"

C16_Witness ==
    /\ bs_call = "logical_shift_right"
    /\ bs_string = <<"1", "0", "1">>
    /\ bs_n = 3
    /\ bs_out = <<"0", "0", "0">>
    /\ bs_carry = "1"

\* C17 as stated: for every bit-string s of width w and every n >= 1,
\* arithmetic_shift_right returns w bits whose vacated high bits are copies
\* of s[0], the carry is a copy of s[0] too, and for n >= w the whole result
\* is the sign bit repeated.
C17_AsStated ==
    (bs_call = "arithmetic_shift_right" /\ bs_n >= 1) =>
        /\ Len(bs_out) = Len(bs_string)
        /\ \A i \in 1..Min(bs_n, Len(bs_string)) : bs_out[i] = bs_string[1]
        /\ bs_carry = bs_string[1]
        /\ bs_n >= Len(bs_string) => bs_out = Repeat(bs_string[1], Len(bs_string))

\* C17: for every bit-string s of width w and every n >= 1,
\* arithmetic_shift_right returns w bits: the n vacated high bits are copies
\* of s[0] and the others are the first w-n bits of s; for n >= w the whole
\* result is the sign bit repeated and the carry is s[0]; for n < w the
\* carry is the bit that fell off last, s[w-n].
C17_ArithmeticShiftRight ==
    (bs_call = "arithmetic_shift_right" /\ bs_n >= 1) =>
        /\ Len(bs_out) = Len(bs_string)
        /\ \A i \in 1..Min(bs_n, Len(bs_string)) : bs_out[i] = bs_string[1]
        /\ \A i \in (bs_n + 1)..Len(bs_string) : bs_out[i] = bs_string[i - bs_n]
        /\ bs_n >= Len(bs_string) =>
               /\ bs_out = Repeat(bs_string[1], Len(bs_string))
               /\ bs_carry = bs_string[1]
        /\ bs_n < Len(bs_string) => bs_carry = At(bs_string, Len(bs_string) - bs_n)

C17_Witness ==
    /\ bs_call = "arithmetic_shift_right"
    /\ bs_string = <<"1", "0", "0">>
    /\ bs_n = 1
    /\ bs_out = <<"1", "1", "0">>
    /\ bs_carry = "0"

-----------------------------------------------------------------------------
(* Properties of the Memory object *)

\* C2 as stated: get, insert_binary and insert_value succeed exactly for
\* the addresses a with -R <= a <= M-1, M the configured memory size, and
\* every access at an address below -R or at an address >= M is a fatal
\* segmentation fault.
C2_AsStated ==
    access.op # "none" =>
        ((access.outcome = "returned") <=>
            /\ 0 - number_registers(config_table) <= access.address
            /\ access.address <= number_memory_addresses(config_table) - 1)

\* C2 amended: the calls succeed exactly for -R <= a <= 2^(operand_bits-1) - 1,
\* the pool holding 2^(operand_bits-1) >= M code/data cells; every access
\* below -R or at 2^(operand_bits-1) or above is a fatal segmentation fault
\* that leaves the memory pool unchanged.
C2_PoolBounds ==
    [][/\ access'.op # "none" =>
            ((access'.outcome = "returned") <=>
                /\ 0 - number_registers(config_table) <= access'.address
                /\ access'.address <= Pow2(operand_bits(config_table) - 1) - 1)
       /\ access'.outcome = "exit" =>
            /\ memory' = memory
            /\ exit_status' = "Segmentation Fault"
       /\ Pow2(operand_bits(config_table) - 1) >= number_memory_addresses(config_table)]_vars

C2_Witness ==
    /\ access.outcome = "exit"
    /\ access.address = Pow2(operand_bits(config_table) - 1)
    /\ access.address > number_memory_addresses(config_table)
    /\ exit_status = "Segmentation Fault"
    /\ \E i \in DOMAIN memory.memory_pool :
           memory.memory_pool[i] # Repeat("0", memory.architecture)

-----------------------------------------------------------------------------
(* Properties of the assembler and of the virtual machine *)

IsPrefix(s, t) == Len(s) <= Len(t) /\ SubSeq(t, 1, Len(s)) = s

Records(message) ==
    \E i \in 1..Len(recorded_errors) :
        "message" \in DOMAIN recorded_errors[i] /\ recorded_errors[i].message = message

\* the semantic analyser ran and recorded no error
PassedAnalysis == Len(started) > 5 /\ exit_status # "-1" /\ exit_status # "traceback"

\* the code generator ran to its end
Assembled == Len(started) > 6 /\ (Len(started) = 7 => next_stage = "VirtualMachine")

\* C1: the stages start in the fixed order and only while no stage has
\* recorded an error; a stage that ends with a recorded error ends the
\* process with status -1, so no pass of the machine's loop follows an error.
C1_StageOrder ==
    /\ [](IsPrefix(started, StageOrder))
    /\ [](recorded_errors # <<>> => (exit_status = "-1" /\ next_stage = "exited"))
    /\ [][started' # started => (recorded_errors = <<>> /\ exit_status = "running")]_vars
    /\ [][cycles' # cycles => (recorded_errors = <<>> /\ Len(started) = Len(StageOrder))]_vars

C1_Witness ==
    /\ started = SubSeq(StageOrder, 1, 5)
    /\ Records("DUPLICATE_VAR")
    /\ exit_status = "-1"

\* C3: once the code generator has built the memory, every slot of the pool,
\* register or address, holds W = total_bits characters, after each pass of
\* the machine's loop too.
C3_SlotWidth ==
    memory # None =>
        \A i \in DOMAIN memory.memory_pool :
            Len(memory.memory_pool[i]) = total_bits(config_table)

C3_Witness ==
    /\ cycles > 2
    /\ memory # None
    /\ At(Memory_get(memory, flags_register_address(config_table)), 0 - 1) = "1"
    /\ Memory_get(memory, 0 - 1) # Repeat("0", total_bits(config_table))

\* the operands of the instruction at a position of an analysed scope
OperandsAt(scope, position) ==
    LET instruction == get_instruction(scope.tokens[position].value)
    IN  (IF instruction.operands > 0 THEN {scope.tokens[position + 2]} ELSE {})
        \cup (IF instruction.operands > 1 THEN {scope.tokens[position + 5]} ELSE {})

LabelOperands(scope) ==
    UNION {{token.value : token \in {operand \in OperandsAt(scope, position) :
                                         operand.type = "LABEL"}} :
               position \in {i \in 1..Len(scope.tokens) : scope.tokens[i].type = "INSTRUCTION"}}

Declares(scope, label) ==
    HasKey(scope.symbol_table, label) \/ HasKey(global_scope.symbol_table, label)

\* C4: after semantic analysis without error every label operand is a key of
\* its scope's table or of the global table, and the code generator finds
\* every label it resolves.
C4_LabelsDeclared ==
    /\ PassedAnalysis =>
           /\ \A label \in LabelOperands(global_scope) : Declares(global_scope, label)
           /\ \A p \in 1..Len(procedure_table) :
                  \A label \in LabelOperands(procedure_table[p].item) :
                      Declares(procedure_table[p].item, label)
    /\ \A i \in 1..Len(resolved_operands) :
           resolved_operands[i].operand.value.type = "LABEL" => ~resolved_operands[i].crash

C4_Witness ==
    /\ Assembled
    /\ Len(procedure_table) = 1
    /\ \E label \in LabelOperands(procedure_table[1].item) :
           /\ ~HasKey(procedure_table[1].item.symbol_table, label)
           /\ HasKey(global_scope.symbol_table, label)
    /\ \E i \in 1..Len(resolved_operands) : resolved_operands[i].operand.value.type = "LABEL"

IsGprOperand(operand) == operand.value.type = "REGISTER" /\ get_spr(operand.value.value) = None

\* C5 as stated: no assembled program has an operand written as general
\* purpose register 0, whatever the spelling of the name and of the number.
C5_AsStated ==
    \A i \in 1..Len(resolved_operands) :
        IsGprOperand(resolved_operands[i].operand) =>
            int(resolved_operands[i].operand.value.value) # 0

\* C6 as stated: a resolved operand is negative exactly when it is a register.
C6_AsStated ==
    \A i \in 1..Len(resolved_operands) :
        ~resolved_operands[i].crash =>
            (resolved_operands[i].value < 0 <=>
                 resolved_operands[i].operand.value.type = "REGISTER")

\* C6: a register operand resolves to a negative integer, -k for the general
\* purpose register k of 1..G and -(G+o) for the special register of offset
\* o; a label resolves to a non-negative integer; a value resolves to the
\* integer its text denotes, negative when written with a minus sign.
C6_OperandSigns ==
    \A i \in 1..Len(resolved_operands) :
        LET operand == resolved_operands[i].operand
            value == resolved_operands[i].value
            G == config_table.REGISTERS
        IN  ~resolved_operands[i].crash =>
                /\ operand.value.type = "REGISTER" => value < 0
                /\ (IsGprOperand(operand) /\ int(operand.value.value) \in 1..G) =>
                       value = 0 - int(operand.value.value)
                /\ (operand.value.type = "REGISTER" /\ ~IsGprOperand(operand)) =>
                       value = 0 - (G + get_spr(operand.value.value).offset)
                /\ operand.value.type = "LABEL" => value >= 0
                /\ operand.value.type = "VALUE" => value = int(operand.value.value)

C6_Witness ==
    /\ Assembled
    /\ \E i \in 1..Len(resolved_operands) :
           resolved_operands[i].operand.value.type = "VALUE" /\ resolved_operands[i].value < 0
    /\ \E i \in 1..Len(resolved_operands) :
           IsGprOperand(resolved_operands[i].operand) /\ resolved_operands[i].value = 0 - 1
    /\ \E i \in 1..Len(resolved_operands) :
           resolved_operands[i].operand.value.type = "LABEL"

\* the addressing mode the destination of the two-operand instruction at a
\* position of the token stream is written with, None if it has none
WrittenDestinationMode(position) ==
    LET source == IF token_stream[position + 1].type = "ADDRESSING_MODE"
                  THEN position + 2 ELSE position + 1
        destination == source + 2
    IN  IF destination > Len(token_stream) \/ token_stream[source + 1].type # "SEPARATOR"
        THEN None
        ELSE IF token_stream[destination].type = "ADDRESSING_MODE"
        THEN token_stream[destination].value
        ELSE IF token_stream[destination].type = "REGISTER" THEN REGISTER_MODE.symbol
        ELSE DIRECT_MODE.symbol

HasNonRegisterDestination ==
    \E position \in 1..Len(token_stream) :
        /\ token_stream[position].type = "INSTRUCTION"
        /\ get_instruction(token_stream[position].value).operands = 2
        /\ WrittenDestinationMode(position) \notin {None, REGISTER_MODE.symbol}

\* C10 as stated: once the semantic analyser has run on a program with a
\* two-operand instruction whose destination is not in register mode, the
\* error NON_REGISTER_DESTINATION_OPERAND is recorded and the status is -1.
C10_AsStated ==
    (Len(started) > 5 /\ HasNonRegisterDestination) =>
        (Records("NON_REGISTER_DESTINATION_OPERAND") /\ exit_status = "-1")

\* the parser ran last: recorded_errors holds the errors it recorded
ParserRan == Len(started) = 4

\* the token the parser holds as previous when it reads token i
PreviousToken(i) ==
    IF i = 1 THEN [type |-> "END", value |-> <<>>, position |-> 0 - 1] ELSE token_stream[i - 1]

ExpectedNext(type) ==
    CASE type = "END" -> {"END", "INSTRUCTION", "LABEL", "LEFT_BRACE", "RIGHT_BRACE"}
      [] type = "INSTRUCTION" ->
             {"END", "ADDRESSING_MODE", "VALUE", "REGISTER", "LABEL", "RIGHT_BRACE"}
      [] type = "ADDRESSING_MODE" -> {"VALUE", "REGISTER", "LABEL"}
      [] type \in {"VALUE", "REGISTER"} -> {"END", "SEPARATOR", "RIGHT_BRACE", "LEFT_BRACE"}
      [] type = "LABEL" ->
             {"END", "SEPARATOR", "INSTRUCTION", "RIGHT_BRACE", "LEFT_BRACE", "ASSEMBLY_DIRECTIVE"}
      [] type = "SEPARATOR" -> {"ADDRESSING_MODE", "VALUE", "REGISTER", "LABEL"}
      [] type \in {"LEFT_BRACE", "RIGHT_BRACE"} -> {"END"}
      [] type = "ASSEMBLY_DIRECTIVE" -> {"END", "VALUE"}

\* an error recorded for token i found after the token before it
AdjacencyErrorAt(i) ==
    \E k \in 1..Len(recorded_errors) :
        recorded_errors[k] =
            [stage |-> "Parser", first |-> PreviousToken(i), second |-> token_stream[i]]

Unexpected(i) == token_stream[i].type \notin ExpectedNext(PreviousToken(i).type)

\* C20: starting with a synthetic END as the previous token, the parser
\* records an adjacency error for a token exactly when its type is not in
\* the expected-next set of the type of the token before it, that token
\* being the previous one whether or not an error was recorded for it; it
\* records no other error of two different tokens.
C20_AdjacencyErrors ==
    ParserRan =>
        /\ \A i \in 1..Len(token_stream) : AdjacencyErrorAt(i) <=> Unexpected(i)
        /\ Cardinality({k \in 1..Len(recorded_errors) :
                            recorded_errors[k].first # recorded_errors[k].second})
               = Cardinality({i \in 1..Len(token_stream) : Unexpected(i)})

C20_Witness ==
    /\ ParserRan
    /\ \E i \in 2..(Len(token_stream) - 1) :
           /\ token_stream[i - 1].type = "VALUE"
           /\ token_stream[i].type = "ADDRESSING_MODE"
           /\ token_stream[i + 1].type = "VALUE"
           /\ AdjacencyErrorAt(i)
           /\ ~AdjacencyErrorAt(i + 1)

OperandStartTypes == {"ADDRESSING_MODE", "VALUE", "REGISTER", "LABEL"}

\* token i stands in a statement after its instruction
FollowsInstruction(i) ==
    \E j \in 1..(i - 1) :
        /\ token_stream[j].type = "INSTRUCTION"
        /\ \A k \in j..i : token_stream[k].type \notin {"END", "LEFT_BRACE", "RIGHT_BRACE"}

\* token i begins the second operand of an instruction, no separator before it
UnseparatedOperand(i) ==
    /\ i > 1
    /\ token_stream[i].type \in OperandStartTypes
    /\ token_stream[i - 1].type \in {"VALUE", "REGISTER", "LABEL"}
    /\ FollowsInstruction(i)

\* token i begins the second operand of an instruction, after a separator
SeparatedOperand(i) ==
    /\ i > 2
    /\ token_stream[i].type \in OperandStartTypes
    /\ token_stream[i - 1].type = "SEPARATOR"
    /\ token_stream[i - 2].type \in {"VALUE", "REGISTER", "LABEL"}
    /\ FollowsInstruction(i)

\* C12 as stated: the separator between the two operands of an instruction
\* is optional: the parser records no error for a second operand that
\* follows the first without a separator.
C12_AsStated ==
    ParserRan => \A i \in 1..Len(token_stream) : UnseparatedOperand(i) => ~AdjacencyErrorAt(i)

\* C12: the separator between the two operands of an instruction is
\* required: for a second operand that follows the first without a
\* separator the parser records an adjacency error at the first token of
\* that operand and the assembler exits with -1, and it records no such
\* error for a second operand that follows a separator.
C12_SeparatorRequired ==
    ParserRan =>
        \A i \in 1..Len(token_stream) :
            /\ UnseparatedOperand(i) => (AdjacencyErrorAt(i) /\ exit_status = "-1")
            /\ SeparatedOperand(i) => ~AdjacencyErrorAt(i)

C12_Witness ==
    /\ ParserRan
    /\ \E i \in 1..Len(token_stream) :
           UnseparatedOperand(i) /\ token_stream[i].type = "ADDRESSING_MODE" /\ AdjacencyErrorAt(i)
    /\ \E i \in 1..Len(token_stream) : SeparatedOperand(i)

\* the parser recorded no error
ParserAccepted == Len(started) > 4 \/ (ParserRan /\ recorded_errors = <<>>)

\* token i follows a LABEL, one END skipped at most
PrecededByLabel(i) ==
    \/ i > 1 /\ token_stream[i - 1].type = "LABEL"
    \/ i > 2 /\ token_stream[i - 1].type = "END" /\ token_stream[i - 2].type = "LABEL"

\* C13 as stated: in every token stream the parser accepts each LEFT_BRACE
\* follows a LABEL, one END skipped at most; the scope splitter never pops
\* from an empty list of global tokens, and every procedure it makes is
\* named by a LABEL token, never by a VALUE, a REGISTER or an INSTRUCTION.
C13_AsStated ==
    /\ ParserAccepted =>
           \A i \in 1..Len(token_stream) :
               token_stream[i].type = "LEFT_BRACE" => PrecededByLabel(i)
    /\ (Len(started) = 5 /\ \E i \in 1..Len(token_stream) : token_stream[i].type = "LEFT_BRACE")
           => exit_status # "traceback"
    /\ Len(started) > 4 =>
           \A k \in 1..Len(procedure_table) :
               \E i \in 1..Len(token_stream) :
                   /\ token_stream[i].type = "LABEL"
                   /\ token_stream[i].value = procedure_table[k].key

\* the semantic analyser was the last stage to run, and ran to its end
AnalyserRan == Len(started) = 6 /\ exit_status # "traceback"

\* the global scope and the procedure scopes, as main holds them
ScopeList ==
    IF global_scope = None THEN <<>>
    ELSE <<global_scope>> \o [k \in 1..Len(procedure_table) |-> procedure_table[k].item]

\* the token is an instruction the source gives no operand: an END follows it
WrittenBare(token) ==
    \E i \in 1..(Len(token_stream) - 1) :
        /\ token_stream[i] = token
        /\ token_stream[i + 1].type = "END"

\* the tokens at j+1 and j+2 are the default operand %ACC, inserted
InsertedAccumulator(tokens, j) ==
    /\ j + 2 <= Len(tokens)
    /\ tokens[j + 1] = TypedToken("ADDRESSING_MODE", <<"%">>, NoPosition)
    /\ tokens[j + 2] = TypedToken("REGISTER", <<"A", "C", "C">>, NoPosition)

ErrorAt(position) ==
    \E k \in 1..Len(recorded_errors) : recorded_errors[k].position = position

AnalysedWithoutError ==
    \/ Len(started) = 6 /\ exit_status = "running"
    \/ Len(started) > 6

\* the types of the tokens after position j, up to the first END
RECURSIVE TypesUntilEnd(_, _)
TypesUntilEnd(tokens, j) ==
    IF j >= Len(tokens) \/ tokens[j + 1].type = "END" THEN <<>>
    ELSE <<tokens[j + 1].type>> \o TypesUntilEnd(tokens, j + 1)

OperandShape(types, at) ==
    /\ types[at] = "ADDRESSING_MODE"
    /\ types[at + 1] \in {"VALUE", "REGISTER", "LABEL"}

\* the tokens after the instruction at j are those the code generator reads
FixedOffsets(tokens, j) ==
    /\ get_instruction(tokens[j].value).operands = 1
           => /\ Len(TypesUntilEnd(tokens, j)) = 2
              /\ OperandShape(TypesUntilEnd(tokens, j), 1)
              /\ j + 3 <= Len(tokens)
    /\ get_instruction(tokens[j].value).operands = 2
           => /\ Len(TypesUntilEnd(tokens, j)) = 5
              /\ OperandShape(TypesUntilEnd(tokens, j), 1)
              /\ TypesUntilEnd(tokens, j)[3] = "SEPARATOR"
              /\ OperandShape(TypesUntilEnd(tokens, j), 4)
              /\ j + 6 <= Len(tokens)

\* C19: after semantic analysis completes without error, in every scope each
\* INSTRUCTION token of arity 1 is followed by exactly an addressing mode and
\* an operand before END, and each of arity 2 by exactly an addressing mode,
\* an operand, a separator, an addressing mode and an operand before END.
C19_AsStated ==
    AnalysedWithoutError =>
        \A s \in 1..Len(ScopeList) :
            \A j \in 1..Len(ScopeList[s].tokens) :
                ScopeList[s].tokens[j].type = "INSTRUCTION"
                    => FixedOffsets(ScopeList[s].tokens, j)

\* every opening brace of the source follows a label
BracesFollowLabels ==
    \A i \in 1..Len(token_stream) :
        token_stream[i].type = "LEFT_BRACE" => (i > 1 /\ token_stream[i - 1].type = "LABEL")

\* the same shape holds of every program whose braces follow labels
FixedOffsetsAfterLabels ==
    (AnalysedWithoutError /\ BracesFollowLabels) =>
        \A s \in 1..Len(ScopeList) :
            \A j \in 1..Len(ScopeList[s].tokens) :
                ScopeList[s].tokens[j].type = "INSTRUCTION"
                    => FixedOffsets(ScopeList[s].tokens, j)

\* SUB #1 with its destination inserted, in a program whose braces follow
\* labels
FixedOffsetsReached ==
    /\ AnalysedWithoutError
    /\ BracesFollowLabels
    /\ Len(global_scope.tokens) = 8
    /\ global_scope.tokens[1].value = <<"S", "U", "B">>
    /\ InsertedAccumulator(global_scope.tokens, 4)

\* a pass of the machine's loop that executed the instruction it fetched
Executes(opcode) ==
    /\ cycles' = cycles + 1
    /\ ~Faults(memory, program_counter)
    /\ read_unsigned_int(Slice(Memory_get(memory, program_counter), 0, machine_operation_bits)) = opcode
    /\ exit_status' = "running"

\* the source operand of the instruction at the program counter, as the
\* machine resolves it after the PC register is incremented
FetchedSource ==
    VirtualMachine_resolve_operand(
        Memory_insert_binary(memory, program_counter_address(config_table),
                             unsigned_int(program_counter + 1, memory.architecture)),
        Slice(Memory_get(memory, program_counter), machine_operation_bits,
              machine_operation_bits + addressing_mode_bits),
        Slice(Memory_get(memory, program_counter), machine_operation_bits + addressing_mode_bits,
              machine_operation_bits + addressing_mode_bits + operand_bits(config_table)))

ReturnRegister(mem) == Memory_get(mem, 0 - (RETURN_REGISTER.offset + config_table.REGISTERS))

ProgramCounterRegister(mem) == Memory_get(mem, 0 - (PROGRAM_COUNTER.offset + config_table.REGISTERS))

\* C14: a CALL fetched at address a writes a+1 into RR and the address of its
\* source into PC; a RET writes RR into PC, and the next fetch is at that
\* address; in the program that calls P at address 0 and returns, the pass
\* after the RET fetches address 1.
C14_CallAndReturn ==
    /\ [][Executes(get_instruction(<<"C", "A", "L", "L">>).opcode) =>
              /\ read_unsigned_int(ReturnRegister(memory')) = program_counter + 1
              /\ read_signed_int(ProgramCounterRegister(memory')) = FetchedSource.address]_vars
    /\ [][Executes(get_instruction(<<"R", "E", "T">>).opcode) =>
              /\ ProgramCounterRegister(memory') = ReturnRegister(memory)
              /\ ReturnRegister(memory') = ReturnRegister(memory)
              /\ program_counter' = read_unsigned_int(ReturnRegister(memory))]_vars
    /\ [][(source_code # None /\ source_code.lexemes = CallProgram /\ Executes(get_instruction(<<"R", "E", "T">>).opcode))
              => program_counter' = 1]_vars

\* the call at address 0 has returned: the OUT of the procedure has printed,
\* RR holds 1 and the next fetch is at address 1
C14_Witness ==
    /\ source_code # None
    /\ source_code.lexemes = CallProgram
    /\ cycles = 3
    /\ Len(stdout) = 1
    /\ memory # None
    /\ read_unsigned_int(ReturnRegister(memory)) = 1
    /\ program_counter = 1

InstructionPositions(tokens) == {j \in 1..Len(tokens) : tokens[j].type = "INSTRUCTION"}

\* the number of instructions of the scope before the token at j
InstructionIndex(tokens, j) == Cardinality({i \in InstructionPositions(tokens) : i < j})

VariablePositions(symbol_table) ==
    {i \in 1..Len(symbol_table) : symbol_table[i].item.type = symboltypes_VARIABLE}

ScopeSize(scope) == scope.number_instructions + scope.number_variables

\* the first address of the scope at s of ScopeList: the sizes of the scopes
\* before it
RECURSIVE ScopeBase(_)
ScopeBase(s) == IF s <= 1 THEN 0 ELSE ScopeBase(s - 1) + ScopeSize(ScopeList[s - 1])

\* the word at an address holds the opcode of the mnemonic
HoldsInstruction(mem, address, mnemonic) ==
    read_unsigned_int(Slice(Memory_get(mem, address), 0, machine_operation_bits))
        = get_instruction(mnemonic).opcode

\* the label of a branch symbol is declared before the instruction at j
LabelsInstruction(tokens, label, j) ==
    /\ j > 1
    /\ j \in InstructionPositions(tokens)
    /\ tokens[j - 1].type = "LABEL"
    /\ tokens[j - 1].value = label

\* the image of a scope: `before` is the scope the code generator is given,
\* `after` the scope it leaves and mem the memory it returns
LaidOut(before, after, base, mem) ==
    /\ before.number_instructions = Cardinality(InstructionPositions(before.tokens))
    /\ before.number_variables = Cardinality(VariablePositions(before.symbol_table))
    /\ \A j \in InstructionPositions(before.tokens) :
           HoldsInstruction(mem, base + InstructionIndex(before.tokens, j), before.tokens[j].value)
    /\ \A i \in 1..Len(before.symbol_table) :
           /\ before.symbol_table[i].item.type = symboltypes_BRANCH
                  => \E j \in InstructionPositions(before.tokens) :
                         /\ LabelsInstruction(before.tokens, before.symbol_table[i].key, j)
                         /\ after.symbol_table[i].item.value
                                = base + InstructionIndex(before.tokens, j)
           /\ before.symbol_table[i].item.type = symboltypes_VARIABLE
                  => /\ after.symbol_table[i].item.value >= base + before.number_instructions
                     /\ after.symbol_table[i].item.value < base + ScopeSize(before)
                     /\ Memory_get(mem, after.symbol_table[i].item.value)
                            = signed_int(before.symbol_table[i].item.value, total_bits(config_table))
                     /\ \A other \in VariablePositions(before.symbol_table) \ {i} :
                            after.symbol_table[other].item.value
                                # after.symbol_table[i].item.value

\* the code generator ran to its end in this step
Generates == started' = Append(started, "CodeGenerator") /\ exit_status' = "running"

\* C15: the code generator lays the global scope out from address 0 and each
\* procedure scope after the scope before it, in the order of declaration; a
\* scope takes number_instructions + number_variables addresses, its
\* instructions first; each PROCEDURE symbol is the first address of its
\* scope, each BRANCH symbol the base of its scope plus the index of its
\* instruction, each VARIABLE symbol the address of a slot after the
\* instructions of its scope that holds signed_int(initial value, total_bits).
C15_Layout ==
    [][Generates =>
           /\ \A s \in 1..Len(ScopeList) :
                  LaidOut(ScopeList[s], ScopeList'[s], ScopeBase(s), memory')
           /\ \A k \in 1..Len(procedure_table) :
                  /\ HasKey(global_scope'.symbol_table, procedure_table[k].key)
                  /\ Lookup(global_scope'.symbol_table, procedure_table[k].key).type
                         = symboltypes_PROCEDURE
                  /\ Lookup(global_scope'.symbol_table, procedure_table[k].key).value
                         = ScopeBase(k + 1)]_vars

\* the global scope at 0..3, P at 4..6 and Q at 7..8: P's variable X is at 6
\* and holds 3, the branch N of Q is at 8, the global variable V at 3
C15_Witness ==
    /\ source_code # None
    /\ source_code.lexemes = LayoutProgram
    /\ Len(started) = 7
    /\ exit_status = "running"
    /\ Len(procedure_table) = 2
    /\ Lookup(global_scope.symbol_table, <<"P">>).value = 4
    /\ Lookup(global_scope.symbol_table, <<"Q">>).value = 7
    /\ Lookup(global_scope.symbol_table, <<"L">>).value = 2
    /\ Lookup(global_scope.symbol_table, <<"V">>).value = 3
    /\ Lookup(procedure_table[1].item.symbol_table, <<"M">>).value = 4
    /\ Lookup(procedure_table[1].item.symbol_table, <<"X">>).value = 6
    /\ Lookup(procedure_table[2].item.symbol_table, <<"N">>).value = 8
    /\ Memory_get(memory, 6) = signed_int(3, total_bits(config_table))
    /\ Memory_get(memory, 3) = signed_int(2, total_bits(config_table))
    /\ HoldsInstruction(memory, 8, <<"R", "E", "T">>)

Loaded(program) == source_code # None /\ source_code.lexemes = program

\* what OUT prints for each of the values
OutLines(values) == [i \in 1..Len(values) |-> [operation |-> "OUT", value |-> values[i], bits |-> <<>>]]

\* the stages started and the passes of the machine's loop made so far
Progress == Len(started) + cycles

\* the passes the countdown takes: four rounds of five instructions, and HLT
CountdownCycles == 4 * 5 + 1

\* the program passes every stage without error and prints 3, 2, 1, 0:
\* while the process has not exited a stage or a pass is next, and the run
\* is over, at HLT, after CountdownCycles passes
CountsDown(program) ==
    Loaded(program) =>
        /\ recorded_errors = <<>>
        /\ exit_status \in {"running", "0"}
        /\ IsPrefix(stdout, OutLines(<<3, 2, 1, 0>>))
        /\ exit_status = "0" => (stdout = OutLines(<<3, 2, 1, 0>>) /\ cycles = CountdownCycles)
        /\ exit_status = "running" => (cycles < CountdownCycles /\ next_stage # "exited")

\* every step of the program starts a stage or makes a pass of the loop
MovesOn(program) == Loaded(program) => Progress' > Progress

\* the claim as stated: the program with STA %ACC, COUNT counts down
C11_AsStated ==
    /\ [](CountsDown(CountdownProgram(StoreRegister)))
    /\ [][MovesOn(CountdownProgram(StoreRegister))]_vars

\* C11: the seven-line program with the line STA %ACC, COUNT is rejected by
\* the semantic analyser, which records that the destination operand must be
\* a register; the process exits with -1 and nothing is run or printed. With
\* that line written STA COUNT, %ACC the program passes every stage without
\* error, and its run prints 3, 2, 1, 0 in that order, one value per OUT, and
\* then reaches HLT.
C11_Countdown ==
    /\ [](Loaded(CountdownProgram(StoreRegister)) =>
              /\ IsPrefix(started, SubSeq(StageOrder, 1, 6))
              /\ stdout = <<>>
              /\ cycles = 0
              /\ Len(started) < 6 => (exit_status = "running" /\ next_stage # "exited")
              /\ Len(started) = 6 =>
                     /\ Len(recorded_errors) = 1
                     /\ Records("NON_REGISTER_DESTINATION_OPERAND")
                     /\ exit_status = "-1")
    /\ [](CountsDown(CountdownProgram(StoreVariable)))
    /\ [][MovesOn(CountdownProgram(StoreVariable))]_vars

\* the run of the program with STA COUNT, %ACC has halted after printing
\* 3, 2, 1, 0
C11_Witness ==
    /\ Loaded(CountdownProgram(StoreVariable))
    /\ Len(started) = Len(StageOrder)
    /\ exit_status = "0"
    /\ stdout = OutLines(<<3, 2, 1, 0>>)
    /\ cycles = CountdownCycles

\* a block is open when the parser reads token i: the last brace before it
\* is an opening one
RECURSIVE OpenBefore(_)
OpenBefore(i) ==
    IF i <= 1 THEN FALSE
    ELSE IF token_stream[i - 1].type = "LEFT_BRACE" THEN TRUE
    ELSE IF token_stream[i - 1].type = "RIGHT_BRACE" THEN FALSE
    ELSE OpenBefore(i - 1)

\* the error of a brace is recorded with the brace as both of its tokens
BraceErrorAt(i) ==
    \E k \in 1..Len(recorded_errors) :
        recorded_errors[k] =
            [stage |-> "Parser", first |-> token_stream[i], second |-> token_stream[i]]

\* the error of a block left open, recorded at the end of the input
UnclosedError ==
    [stage |-> "Parser", first |-> [type |-> "LEFT_BRACE", value |-> <<>>, position |-> 0 - 1],
     second |-> [type |-> "LEFT_BRACE", value |-> <<>>, position |-> 0 - 1]]

BraceErrors == {k \in 1..Len(recorded_errors) : recorded_errors[k].first = recorded_errors[k].second}

BracePositions == {i \in 1..Len(token_stream) : token_stream[i].type \in {"LEFT_BRACE", "RIGHT_BRACE"}}

\* the braces alternate, an opening one first and a closing one last
Alternating ==
    /\ \A i \in BracePositions :
           token_stream[i].type = (IF OpenBefore(i) THEN "RIGHT_BRACE" ELSE "LEFT_BRACE")
    /\ ~OpenBefore(Len(token_stream) + 1)

\* C21: the parser tracks one open brace level: it records an error, and no
\* other, on a LEFT_BRACE read while a block is open, on a RIGHT_BRACE read
\* while none is open, and at the end of the input if a block is open; a
\* token stream with no brace error has its braces alternating, ending closed.
C21_BraceLevel ==
    ParserRan =>
        /\ \A i \in BracePositions :
               BraceErrorAt(i) <=> (OpenBefore(i) <=> token_stream[i].type = "LEFT_BRACE")
        /\ (\E k \in 1..Len(recorded_errors) : recorded_errors[k] = UnclosedError)
               <=> OpenBefore(Len(token_stream) + 1)
        /\ Cardinality(BraceErrors)
               = Cardinality({i \in BracePositions : BraceErrorAt(i)})
                     + (IF OpenBefore(Len(token_stream) + 1) THEN 1 ELSE 0)
        /\ BraceErrors = {} => Alternating

\* `{ {` on a line: the second brace is nested and the block is never closed
C21_Witness ==
    /\ ParserRan
    /\ Len(token_stream) > 1
    /\ token_stream[1].type = "LEFT_BRACE"
    /\ token_stream[2].type = "LEFT_BRACE"
    /\ BraceErrorAt(2)
    /\ ~BraceErrorAt(1)
    /\ recorded_errors[Len(recorded_errors)] = UnclosedError

\* the PC register after the fetch of the instruction at the program counter
Counted ==
    Memory_insert_binary(memory, program_counter_address(config_table),
                         unsigned_int(program_counter + 1, memory.architecture))

\* the destination operand of the instruction at the program counter, which
\* the machine resolves in the register mode
FetchedDestination ==
    VirtualMachine_resolve_operand(
        Counted, <<"0">>,
        Slice(Memory_get(memory, program_counter),
              machine_operation_bits + addressing_mode_bits + operand_bits(config_table),
              machine_operation_bits + addressing_mode_bits + 2 * operand_bits(config_table)))

\* PC after a branch: the address of the source when taken, else the PC + 1
\* written at the fetch
Branches(taken) ==
    IF taken
    THEN read_signed_int(ProgramCounterRegister(memory')) = FetchedSource.address
    ELSE /\ ProgramCounterRegister(memory') = unsigned_int(program_counter + 1, memory.architecture)
         /\ program_counter' = program_counter + 1

WritesOnly(address, bits) ==
    /\ ~Faults(memory, address)
    /\ \A a \in DOMAIN memory.memory_pool :
           memory'.memory_pool[a] =
               IF a = calculate_address(memory, address) THEN bits ELSE Counted.memory_pool[a]

\* C23: STA writes dst.bits into memory[src.address] and LDA writes src.bits
\* into memory[dst.address]; apart from that cell and the PC register, which
\* holds the PC + 1 written at the fetch, no register and no memory cell
\* changes.
C23_StoreAndLoad ==
    /\ [][Executes(get_instruction(<<"S", "T", "A">>).opcode) =>
              WritesOnly(FetchedSource.address, FetchedDestination.bits)]_vars
    /\ [][Executes(get_instruction(<<"L", "D", "A">>).opcode) =>
              WritesOnly(FetchedDestination.address, FetchedSource.bits)]_vars
    /\ [][(Executes(get_instruction(<<"S", "T", "A">>).opcode)
               \/ Executes(get_instruction(<<"L", "D", "A">>).opcode))
              => /\ DOMAIN memory'.memory_pool = DOMAIN memory.memory_pool
                 /\ stdout' = stdout]_vars

\* STA V, %ACC has stored the accumulator, read as 3, in the variable V
C23_Witness ==
    /\ cycles = 3
    /\ exit_status = "running"
    /\ memory # None
    /\ read_unsigned_int(Slice(Memory_get(memory, 2), 0, machine_operation_bits))
           = get_instruction(<<"S", "T", "A">>).opcode
    /\ read_signed_int(Memory_get(memory, 0 - (ACCUMULATOR.offset + config_table.REGISTERS))) = 3
    /\ read_signed_int(Memory_get(memory, 5)) = 3
    /\ read_signed_int(Memory_get(memory, 0 - 1)) = 0

FlagsRegister(mem) == Memory_get(mem, 0 - (FLAGS_REGISTER.offset + config_table.REGISTERS))

\* the shift with a carry that a mnemonic applies
CarryShift(mnemonic, bits, n) ==
    CASE mnemonic = <<"L", "S", "L">> -> logical_shift_left(bits, n)
      [] mnemonic = <<"L", "S", "R">> -> logical_shift_right(bits, n)
      [] mnemonic = <<"A", "S", "L">> -> arithmetic_shift_left(bits, n)
      [] mnemonic = <<"A", "S", "R">> -> arithmetic_shift_right(bits, n)

CarryShifts == {<<"L", "S", "L">>, <<"L", "S", "R">>, <<"A", "S", "L">>, <<"A", "S", "R">>}

Rotations == {<<"C", "S", "L">>, <<"C", "S", "R">>}

DestinationIsFlags == FetchedDestination.address = 0 - (FLAGS_REGISTER.offset + config_table.REGISTERS)

\* a shift by a count below 1 changes neither dst nor FR; any other sets FR
\* to the padded carry and dst to the shifted bits
ShiftsWithCarry(mnemonic) ==
    IF FetchedSource.value < 1
    THEN /\ Memory_get(memory', FetchedDestination.address) = FetchedDestination.bits
         /\ FlagsRegister(memory') = FlagsRegister(memory)
    ELSE /\ Memory_get(memory', FetchedDestination.address)
                = CarryShift(mnemonic, FetchedDestination.bits, FetchedSource.value)[2]
         /\ FlagsRegister(memory')
                = Repeat("0", total_bits(config_table) - 1)
                      \o <<CarryShift(mnemonic, FetchedDestination.bits, FetchedSource.value)[1]>>

\* the claim as stated, whatever register dst is
C24_AsStated ==
    /\ [][\A mnemonic \in CarryShifts :
              Executes(get_instruction(mnemonic).opcode) => ShiftsWithCarry(mnemonic)]_vars
    /\ [][\A mnemonic \in Rotations :
              Executes(get_instruction(mnemonic).opcode)
                  => FlagsRegister(memory') = FlagsRegister(memory)]_vars

\* C24: for LSL, LSR, ASL and ASR with a dst other than FR: a count below 1
\* changes neither dst nor FR, any other count sets FR to W-1 zeros followed
\* by the carry bit of the shift and dst to the shifted bits. CSL and CSR
\* with a dst other than FR never change FR. With FR as dst the shifted or
\* rotated bits are written last, so FR holds them, not the padded carry.
C24_ShiftFlags ==
    /\ [][\A mnemonic \in CarryShifts :
              Executes(get_instruction(mnemonic).opcode) =>
                  IF DestinationIsFlags
                  THEN FlagsRegister(memory') =
                           IF FetchedSource.value < 1 THEN FlagsRegister(memory)
                           ELSE CarryShift(mnemonic, FlagsRegister(memory), FetchedSource.value)[2]
                  ELSE ShiftsWithCarry(mnemonic)]_vars
    /\ [][Executes(get_instruction(<<"C", "S", "L">>).opcode) =>
              IF DestinationIsFlags
              THEN FlagsRegister(memory') =
                       IF circular_shift_left(FlagsRegister(memory), FetchedSource.value) = None
                       THEN FlagsRegister(memory)
                       ELSE circular_shift_left(FlagsRegister(memory), FetchedSource.value)
              ELSE FlagsRegister(memory') = FlagsRegister(memory)]_vars
    /\ [][Executes(get_instruction(<<"C", "S", "R">>).opcode) =>
              IF DestinationIsFlags
              THEN FlagsRegister(memory') =
                       IF circular_shift_right(FlagsRegister(memory), FetchedSource.value) = None
                       THEN FlagsRegister(memory)
                       ELSE circular_shift_right(FlagsRegister(memory), FetchedSource.value)
              ELSE FlagsRegister(memory') = FlagsRegister(memory)]_vars

\* LSR has run with the count 3 in R1 and -3 in ACC: the accumulator is
\* positive and the flags register holds the carry 1
C24_Witness ==
    /\ cycles = 3
    /\ exit_status = "running"
    /\ memory # None
    /\ read_unsigned_int(Slice(Memory_get(memory, 2), 0, machine_operation_bits))
           = get_instruction(<<"L", "S", "R">>).opcode
    /\ read_signed_int(Memory_get(memory, 0 - 1)) = 3
    /\ read_signed_int(Memory_get(memory, 0 - (ACCUMULATOR.offset + config_table.REGISTERS))) > 0
    /\ read_unsigned_int(FlagsRegister(memory)) = 1

PoolsRan == Len(started) = 5

\* token i declares a label: a LABEL before an instruction or a directive
DeclaresLabel(i) ==
    /\ i < Len(token_stream)
    /\ token_stream[i].type = "LABEL"
    /\ token_stream[i + 1].type \in {"INSTRUCTION", "ASSEMBLY_DIRECTIVE"}

\* the opening brace of the block token i is in, 0 in the global scope
RECURSIVE BlockOf(_)
BlockOf(i) ==
    IF i <= 1 THEN 0
    ELSE IF token_stream[i - 1].type = "LEFT_BRACE" THEN i - 1
    ELSE IF token_stream[i - 1].type = "RIGHT_BRACE" THEN 0
    ELSE BlockOf(i - 1)

\* the names of the procedures: the labels before the opening braces
NamesProcedure(name) ==
    \E b \in 2..Len(token_stream) :
        /\ token_stream[b].type = "LEFT_BRACE"
        /\ token_stream[b - 1].type = "LABEL"
        /\ token_stream[b - 1].value = name

\* token i declares a label its scope already holds
Redeclares(i) ==
    /\ DeclaresLabel(i)
    /\ \/ \E j \in 1..(i - 1) :
              /\ DeclaresLabel(j)
              /\ token_stream[j].value = token_stream[i].value
              /\ BlockOf(j) = BlockOf(i)
       \/ BlockOf(i) = 0 /\ NamesProcedure(token_stream[i].value)

PoolErrorAt(position) ==
    \E k \in 1..Len(recorded_errors) :
        /\ recorded_errors[k].stage = "InstructionPools"
        /\ recorded_errors[k].position = position

\* C25: a label declared in a scope whose symbol table already holds it
\* (a branch or a variable declared before, or in the global scope the name
\* of a procedure) gets an Instruction Pool error at its position and the
\* assembler exits with -1 before the semantic analysis.
C25_AsStated ==
    /\ (PoolsRan /\ \E i \in 1..Len(token_stream) : Redeclares(i))
           => /\ exit_status = "-1"
              /\ \A i \in 1..Len(token_stream) :
                     Redeclares(i) => PoolErrorAt(token_stream[i].position)
    /\ (\E i \in 1..Len(token_stream) : Redeclares(i)) => Len(started) <= 5

\* the same of every run of the instruction pool that ends without an
\* uncaught exception, and no other error is recorded by it
RedeclarationsRecorded ==
    /\ (PoolsRan /\ exit_status # "traceback")
           => /\ \A i \in 1..Len(token_stream) :
                     Redeclares(i) <=> PoolErrorAt(token_stream[i].position)
              /\ (\E i \in 1..Len(token_stream) : Redeclares(i)) <=> exit_status = "-1"
    /\ (\E i \in 1..Len(token_stream) : Redeclares(i)) => Len(started) <= 5

\* P HLT in the global scope of a program that declares the procedure P
RedeclarationsReached ==
    /\ PoolsRan
    /\ exit_status = "-1"
    /\ Redeclares(1)
    /\ token_stream[1].value = <<"P">>
    /\ Records("PROC_TO_BRANCH_REDECL")

\* the fields of the instruction at the program counter
FetchedOpcode == read_unsigned_int(Slice(Memory_get(memory, program_counter), 0, machine_operation_bits))

FetchedMode ==
    read_unsigned_int(Slice(Memory_get(memory, program_counter), machine_operation_bits,
                            machine_operation_bits + addressing_mode_bits))

FetchedSourceField ==
    read_signed_int(Slice(Memory_get(memory, program_counter),
                          machine_operation_bits + addressing_mode_bits,
                          machine_operation_bits + addressing_mode_bits + operand_bits(config_table)))

\* a pass of the loop over an instruction whose source is an immediate
FetchesImmediate ==
    /\ cycles' = cycles + 1
    /\ ~Faults(memory, program_counter)
    /\ FetchedMode = IMMEDIATE_MODE.opcode

\* C26: resolving a source operand in the immediate mode never reads memory:
\* for every value of the operand field the pass ends without a segmentation
\* fault, and LDA #v writes signed_int(v, W) into its destination.
C26_AsStated ==
    /\ [][FetchesImmediate => exit_status' # "Segmentation Fault"]_vars
    /\ [][(FetchesImmediate /\ FetchedOpcode = get_instruction(<<"L", "D", "A">>).opcode)
              => /\ exit_status' = "running"
                 /\ Memory_get(memory', FetchedDestination.address)
                        = signed_int(FetchedSourceField, total_bits(config_table))]_vars

\* the immediate is resolved when its value is an address of the memory
\* pool, register or cell, and only then
ImmediateReadsMemory ==
    [][(FetchesImmediate /\ FetchedOpcode = get_instruction(<<"L", "D", "A">>).opcode)
           => IF Faults(memory, FetchedSourceField)
              THEN exit_status' = "Segmentation Fault" /\ memory'.memory_pool = Counted.memory_pool
              ELSE /\ exit_status' = "running"
                   /\ Memory_get(memory', FetchedDestination.address)
                          = signed_int(FetchedSourceField, total_bits(config_table))]_vars

\* LDA #-8, %ACC has ended the run with a segmentation fault
ImmediateFaultReached ==
    /\ cycles = 1
    /\ exit_status = "Segmentation Fault"
    /\ stdout = <<>>
    /\ source_code.lexemes[3] = <<"-", "8">>

DecimalDigits == <<"0", "1", "2", "3", "4", "5", "6", "7", "8", "9">>

RECURSIVE Decimal(_)
Decimal(n) ==
    IF n < 10 THEN <<DecimalDigits[n + 1]>>
    ELSE Append(Decimal(n \div 10), DecimalDigits[(n % 10) + 1])

\* the names a REGISTER token can carry under the configuration of the
\* state: the number of a general purpose register, or a variant of a
\* special purpose register
RegisterNames ==
    {Decimal(k) : k \in 1..number_gprs(config_table)} \cup SPECIAL_PURPOSE_REGISTERS

\* the address of a register: -k, or -(G + offset)
RegisterAddress(name) ==
    IF get_spr(name) = None THEN 0 - int(name)
    ELSE 0 - (number_gprs(config_table) + get_spr(name).offset)

\* the operand field the code generator writes for a register
RegisterField(name) ==
    signed_int(CodeGenerator_resolve_operand(
                   Operand(TypedToken("ADDRESSING_MODE", <<"%">>, NoPosition),
                           TypedToken("REGISTER", name, NoPosition)),
                   Scope(<<>>, <<>>, 0, 0), <<>>, config_table).value,
               operand_bits(config_table))

RegistersDecode ==
    \A name \in RegisterNames : read_signed_int(RegisterField(name)) = RegisterAddress(name)

\* C27: for every configuration with REGISTERS >= 3 and MEMORY >= 100 the
\* operand field written for any register decodes, by read_signed_int on
\* operand_bits bits, to that register's address, and the addresses of PC,
\* RR and FR of the assembler are those of the virtual machine.
C27_AsStated ==
    (config_table.REGISTERS >= REGISTERS_CONFIG /\ config_table.MEMORY >= MEMORY_CONFIG)
        => /\ RegistersDecode
           /\ RegisterAddress(<<"P", "C">>) = program_counter_address(config_table)
           /\ RegisterAddress(<<"R", "R">>) = return_register_address(config_table)
           /\ RegisterAddress(<<"F", "R">>) = flags_register_address(config_table)

\* the fields decode whenever the registers and the memory addresses are not
\* equally many
RegistersDecodeUnlessEqual ==
    number_registers(config_table) # number_memory_addresses(config_table) => RegistersDecode

\* with 128 registers and 128 memory addresses the field of FR is the field
\* of memory address 0, and OUT %FR prints the word of the first instruction
EdgeFlagsReached ==
    /\ config_table.REGISTERS = 124
    /\ config_table.MEMORY = 128
    /\ read_signed_int(RegisterField(<<"F", "R">>)) = 0
    /\ exit_status = "0"
    /\ stdout = OutLines(<<1507837>>)

\* what the scope splitter makes of the token stream of the state
SplitScopes == get_scopes(token_stream, 0, <<>>, <<>>)

EndsWithEnd(tokens) == tokens # <<>> /\ Last(tokens).type = "END"

\* a procedure scope of the splitter whose token list does not end with END
LacksEnd ==
    /\ ~SplitScopes.crash
    /\ \E k \in 1..Len(SplitScopes.procedure_scopes) :
           ~EndsWithEnd(SplitScopes.procedure_scopes[k].item.tokens)

\* C28: for every token stream the parser accepts, each procedure scope the
\* scope splitter produces ends with an END token, and the instruction pool
\* and the semantic analyser finish by yielding their result or by reporting
\* positioned errors, never by running off the end of a token list.
C28_AsStated ==
    ParserAccepted
        => /\ ~SplitScopes.crash
           /\ ~LacksEnd
           /\ (Len(started) \in {5, 6} => exit_status \in {"running", "-1"})

\* the instruction pool and the semantic analyser end in a traceback only
\* for a token stream the splitter cannot split or splits into a procedure
\* scope without a closing END
TracebackOnlyWithoutEnd ==
    (Len(started) \in {5, 6} /\ exit_status = "traceback") => (SplitScopes.crash \/ LacksEnd)

\* a procedure closed on the line of its last statement has been split into
\* a scope without END and the instruction pool has ended in a traceback
MissingEndReached ==
    /\ Len(started) = 5
    /\ exit_status = "traceback"
    /\ LacksEnd

\* the VALUE tokens of the stream for which the lexer recorded no
\* INVALID_VALUE error
AcceptedValues ==
    {i \in 1..Len(token_stream) :
         /\ token_stream[i].type = "VALUE"
         /\ handle_value(token_stream[i].value, token_stream[i].position) = <<>>}

LoneSign(text) == Len(text) = 1 /\ text[1] \in VALUE_SIGNS

\* C29: every VALUE token the lexer emits without an INVALID_VALUE error is
\* an optional sign followed by at least one decimal digit, the texts on
\* which the integer conversions of the instruction pool and of the code
\* generator succeed.
C29_AsStated ==
    \A i \in AcceptedValues : IsInt(token_stream[i].value)

\* a VALUE token without an error is an integer literal or a lone sign
AcceptedValuesOrSign ==
    \A i \in AcceptedValues :
        IsInt(token_stream[i].value) \/ LoneSign(token_stream[i].value)

\* the code generator has ended in a traceback over the operand '-'
LoneSignReached ==
    /\ Len(started) = 7
    /\ exit_status = "traceback"
    /\ \E i \in AcceptedValues : token_stream[i].value = <<"-">>

\* the program of the state rotates this register
Rotates(register) ==
    source_code.lexemes \in {RotationProgram(count, register) : count \in RotationCounts}

\* the copies LDA made of the register and of the flags register
CopiedRegister == Memory_get(memory, 0 - 2)

CopiedFlags == Memory_get(memory, 0 - 3)

\* CSLC and CSRC have both run
RotatedBack == cycles = 6 /\ exit_status = "running"

\* the register holds s again and the low bit of FR the carry c
Restored(register) ==
    /\ Memory_get(memory, register) = (IF Rotates(<<"F", "R">>) THEN CopiedFlags ELSE CopiedRegister)
    /\ Last(FlagsRegister(memory)) = Last(CopiedFlags)

\* a pass of the loop over CSLC with the count 1
ExecutesLeftOnce ==
    Executes(get_instruction(<<"C", "S", "L", "C">>).opcode) /\ FetchedSource.value = 1

\* CSLC by 1 sets the register to s[1:] followed by c and the carry to s[0]
RotatesLeftOnce ==
    /\ Memory_get(memory', FetchedDestination.address)
           = Tail(FetchedDestination.bits) \o <<Last(FlagsRegister(memory))>>
    /\ Last(FlagsRegister(memory')) = Head(FetchedDestination.bits)

\* the claim as stated, whatever the register
C30_AsStated ==
    /\ [](RotatedBack =>
              /\ Rotates(<<"R", "1">>) => Restored(0 - 1)
              /\ Rotates(<<"F", "R">>)
                     => Restored(0 - (FLAGS_REGISTER.offset + config_table.REGISTERS)))
    /\ [][ExecutesLeftOnce => RotatesLeftOnce]_vars

\* C30: for a register other than FR, every value s of it, every carry c in
\* the low bit of FR and every count n >= 1, CSLC by n and then CSRC by n
\* restore the register to s and the low bit of FR to c, a rotation over a
\* multiple of W+1 places leaving both as they are; and CSLC by 1 sets the
\* register to s[1:] followed by c and the carry to s[0]. With FR as the
\* register the rotated bits are written last: CSLC by 1 leaves in FR the
\* bits s[1:] followed by the old low bit.
C30_CarryRotations ==
    /\ []((RotatedBack /\ Rotates(<<"R", "1">>)) => Restored(0 - 1))
    /\ [][ExecutesLeftOnce =>
              IF DestinationIsFlags
              THEN FlagsRegister(memory')
                       = Tail(FlagsRegister(memory)) \o <<Last(FlagsRegister(memory))>>
              ELSE RotatesLeftOnce]_vars

\* -3 in R1 and the carry 0 have been rotated by 3 and back: in between the
\* register was not s, now R1 holds -3 again and FR the carry 0
C30_Witness ==
    /\ RotatedBack
    /\ source_code.lexemes = RotationProgram(<<"3">>, <<"R", "1">>)
    /\ read_signed_int(Memory_get(memory, 0 - 1)) = 0 - 3
    /\ read_signed_int(CopiedRegister) = 0 - 3
    /\ read_signed_int(CopiedFlags) = 0
    /\ read_signed_int(FlagsRegister(memory)) = 0

=============================================================================
